---- MODULE Spec2Model ----
(***************************************************************************)
(* Eclipse Combat Simulator: the combat engine of src/ecs.py together with *)
(* the Ship statistics of src/ship.py and the fleet ordering of            *)
(* src/player.py.                                                          *)
(*                                                                         *)
(* Objects are modelled by reference: `heap' maps an object address to a   *)
(* Ship record, and fleets and the firing sequence are sequences of        *)
(* addresses, so that aliasing between the template fleets and the fleets  *)
(* of a trial is something the model can get wrong.                        *)
(*                                                                         *)
(* Numbers that are floats in the program are kept exact:                  *)
(*   - initiative is counted in half points (the defender's +0.5 is 1);    *)
(*   - kill_priority is the fraction num/den with                          *)
(*     num = net_damage * (1 + hit_bonus) and den = 6 * armor.             *)
(***************************************************************************)
EXTENDS Integers, Sequences, FiniteSets, TLC

VARIABLES
    players,       \* ECS.players: the two template players (index 1 defends)
    heap,          \* address -> Ship object
    defender,      \* the defender's deep copy used by the current trial
    attacker,      \* the attacker's deep copy used by the current trial
    firing_seq,    \* roll_attacks: ships that have not fired yet, ascending initiative
    combat_round,  \* simulate_combat: round counter
    sim_results,   \* ECS.sim_results: <<defender wins, attacker wins, stalemates>>
    nsims,         \* run_simulations: accepted trial count
    sim_num,       \* run_simulations: trials started so far
    attack,        \* apply_attacks resolved in isolation: the last tuple and its opponent
    salvo,         \* a recorded combat: the last firing group and its attack tuples
    scoreboard,    \* a Scoreboard object
    prompt,        \* user_input.GetInt: its arguments, the last response, the value returned
    assembly,      \* assemble_fleets step by step: its position, Ship.ships, the parts' is_available
    pc             \* control position

vars == <<players, heap, defender, attacker, firing_seq, combat_round,
          sim_results, nsims, sim_num, attack, salvo, scoreboard, prompt,
          assembly, pc>>

(***************************************************************************)
(* Bounds of the model.                                                    *)
(***************************************************************************)
\* largest trial count the user enters (the program accepts up to 10000)
MaxSims == 2
\* largest hit bonus of an attack tuple resolved in isolation
MaxHitBonus == 5
\* largest damage of an attack tuple resolved in isolation
MaxDamage == 2
MaxRecords == 3
MaxPlayers == 3
\* longest response typed at a prompt, in characters
MaxResponseLen == 5
\* most prototypes the user builds while the fleets are assembled
MaxPrototypes == 2

(***************************************************************************)
(* Program constants.                                                      *)
(***************************************************************************)
\* simulate_combat: the round loop runs while combat_round < 1000
RoundCap == 1000
\* random.randint(1, 6)
DieSides == 6

(***************************************************************************)
(* The parts and hulls database (tables `part', `hull' and `loadout').     *)
(***************************************************************************)
Part(name, damage, nshots, power, armor, shield, hit_bonus, initiative, is_weapon, is_missile, is_drive, is_ancient) ==
    [name |-> name, damage |-> damage, nshots |-> nshots, power |-> power,
     armor |-> armor, shield |-> shield, hit_bonus |-> hit_bonus,
     initiative |-> initiative, is_weapon |-> is_weapon,
     is_missile |-> is_missile, is_drive |-> is_drive,
     is_ancient |-> is_ancient]

get_parts ==
    [n \in {"Ion Cannon", "Plasma Cannon", "Flux Missile", "Electron Computer",
            "Positron Computer", "Gauss Shield", "Hull", "Nuclear Drive",
            "Heavy Cannon", "Siege Cannon", "Improved Hull", "Nuclear Source",
            "Ion Turret", "<Empty Slot>"} |->
        CASE n = "Ion Cannon"        -> Part(n, 1, 1, -1, 0, 0, 0, 0, 1, 0, 0, 0)
          [] n = "Plasma Cannon"     -> Part(n, 2, 1, -2, 0, 0, 0, 0, 1, 0, 0, 0)
          [] n = "Flux Missile"      -> Part(n, 1, 2,  0, 0, 0, 0, 0, 1, 1, 0, 0)
          [] n = "Electron Computer" -> Part(n, 0, 0,  0, 0, 0, 1, 0, 0, 0, 0, 0)
          [] n = "Positron Computer" -> Part(n, 0, 0, -1, 0, 0, 2, 0, 0, 0, 0, 0)
          [] n = "Gauss Shield"      -> Part(n, 0, 0,  0, 0, 1, 0, 0, 0, 0, 0, 0)
          [] n = "Hull"              -> Part(n, 0, 0,  0, 1, 0, 0, 0, 0, 0, 0, 0)
          [] n = "Nuclear Drive"     -> Part(n, 0, 0, -1, 0, 0, 0, 1, 0, 0, 1, 0)
          [] n = "Heavy Cannon"      -> Part(n, 3, 1, -1, 0, 0, 0, 0, 1, 0, 0, 0)
          [] n = "Siege Cannon"      -> Part(n, 6, 1, -1, 0, 0, 0, 0, 1, 0, 0, 0)
          [] n = "Improved Hull"     -> Part(n, 0, 0,  0, 2, 0, 0, 0, 0, 0, 0, 0)
          [] n = "Nuclear Source"    -> Part(n, 0, 0,  3, 0, 0, 0, 0, 0, 0, 0, 0)
          [] n = "Ion Turret"        -> Part(n, 1, 2, -1, 0, 0, 0, 0, 1, 0, 0, 1)
          [] n = "<Empty Slot>"      -> Part(n, 0, 0,  0, 0, 0, 0, 0, 0, 0, 0, 0)]

\* sorted(parts.keys())
part_names ==
    <<"<Empty Slot>", "Electron Computer", "Flux Missile", "Gauss Shield",
      "Heavy Cannon", "Hull", "Improved Hull", "Ion Cannon", "Ion Turret",
      "Nuclear Drive", "Nuclear Source", "Plasma Cannon", "Positron Computer",
      "Siege Cannon">>

Hull(name, nmax, nslots, bonus_power, bonus_initiative, needs_drive, is_mobile, default_parts) ==
    [name |-> name, nmax |-> nmax, nslots |-> nslots,
     bonus_power |-> bonus_power, bonus_initiative |-> bonus_initiative,
     needs_drive |-> needs_drive, is_mobile |-> is_mobile,
     default_parts |-> default_parts]

get_hulls ==
    [n \in {"Interceptor", "Starbase", "Cruiser", "Orbital", "Dreadnought"} |->
        CASE n = "Interceptor" ->
                Hull(n, 1, 4, 2, 0, 1, 1,
                     <<"Ion Cannon", "Flux Missile", "Electron Computer",
                       "Nuclear Drive">>)
          [] n = "Starbase" ->
                Hull(n, 1, 4, 3, 0, 0, 0,
                     <<"Plasma Cannon", "Positron Computer", "Gauss Shield",
                       "Hull">>)
          [] n = "Cruiser" ->
                Hull(n, 2, 4, 2, 0, 1, 1,
                     <<"Ion Cannon", "Hull", "Electron Computer",
                       "Nuclear Drive">>)
          [] n = "Orbital" ->
                Hull(n, 1, 4, 0, 0, 0, 0,
                     <<"Hull", "Hull", "Gauss Shield", "<Empty Slot>">>)
          [] n = "Dreadnought" ->
                Hull(n, 1, 4, 1, 0, 1, 1,
                     <<"Plasma Cannon", "Plasma Cannon", "Hull",
                       "Nuclear Drive">>)]

\* iteration order of self.hulls.keys()
hull_names == <<"Interceptor", "Starbase", "Cruiser", "Orbital", "Dreadnought">>

(***************************************************************************)
(* Generic helpers.                                                        *)
(***************************************************************************)
RECURSIVE SumSeq(_)
SumSeq(s) == IF s = <<>> THEN 0 ELSE Head(s) + SumSeq(Tail(s))

RECURSIVE Flatten(_)
Flatten(ss) == IF ss = <<>> THEN <<>> ELSE Head(ss) \o Flatten(Tail(ss))

Range(s) == {s[i] : i \in DOMAIN s}

\* the sequence s without its element at index i (del s[i])
DelAt(s, i) == SubSeq(s, 1, i - 1) \o SubSeq(s, i + 1, Len(s))

\* sorted(): a stable ascending sort; lt[x, y] is "key(x) < key(y)"
RECURSIVE InsertStable(_, _, _)
InsertStable(x, t, lt) ==
    IF t = <<>> THEN <<x>>
    ELSE IF lt[x, Head(t)] THEN <<x>> \o t
    ELSE <<Head(t)>> \o InsertStable(x, Tail(t), lt)

RECURSIVE sorted(_, _)
sorted(s, lt) ==
    IF s = <<>> THEN <<>>
    ELSE InsertStable(s[Len(s)], sorted(SubSeq(s, 1, Len(s) - 1), lt), lt)

(***************************************************************************)
(* Ship (src/ship.py).                                                     *)
(***************************************************************************)
\* the values of one attribute over a list of equipped parts
PartValues(parts, attr) == [i \in DOMAIN parts |-> get_parts[parts[i]][attr]]

\* weapon counting that forgets that the missiles are spent
WeaponCounts_with_missiles(s) ==
    [i \in DOMAIN s.parts |-> get_parts[s.parts[i]].is_weapon = 1]

\* net_damage as Ship.integrate accumulates it: every non-missile weapon,
\* and the missile weapons as long as missiles_fired is not set
WeaponCounts(s) ==
    [i \in DOMAIN s.parts |->
        LET a_part == get_parts[s.parts[i]] IN
        a_part.is_weapon = 1 /\ (a_part.is_missile = 0 \/ s.missiles_fired = 0)]

\* a kill priority that leaves the damage output out
calc_kill_priority_by_accuracy(net_damage, hit_bonus, armor) ==
    [num |-> 1 + hit_bonus, den |-> 6 * armor]

\* Ship.calc_kill_priority: net_damage * (1 + hit_bonus) / 6.0 / armor
calc_kill_priority(net_damage, hit_bonus, armor) ==
    [num |-> net_damage * (1 + hit_bonus), den |-> 6 * armor]

\* an integrate that adds the defender's half point to the initiative the
\* ship already has instead of starting from the hull's bonus
integrate_accumulating(s, is_defending) ==
    LET a_hull     == get_hulls[s.hull]
        net_damage == SumSeq([i \in DOMAIN s.parts |->
                              IF WeaponCounts(s)[i]
                              THEN get_parts[s.parts[i]].damage
                                   * get_parts[s.parts[i]].nshots
                              ELSE 0])
        armor      == 1 + SumSeq(PartValues(s.parts, "armor"))
        hit_bonus  == SumSeq(PartValues(s.parts, "hit_bonus"))
    IN  [s EXCEPT
            !.net_damage = net_damage,
            !.net_power  = a_hull.bonus_power + SumSeq(PartValues(s.parts, "power")),
            !.armor      = armor,
            !.shield     = SumSeq(PartValues(s.parts, "shield")),
            !.hit_bonus  = hit_bonus,
            !.initiative = 2 * a_hull.bonus_initiative + (s.initiative % 2)
                           + (IF is_defending = 1 THEN 1 ELSE 0)
                           + 2 * SumSeq(PartValues(s.parts, "initiative")),
            !.has_drive  = IF \E i \in DOMAIN s.parts :
                                 get_parts[s.parts[i]].is_drive = 1
                           THEN 1 ELSE 0,
            !.has_weapon = IF \E i \in DOMAIN s.parts : WeaponCounts(s)[i] THEN 1 ELSE 0,
            !.kill_priority = calc_kill_priority(net_damage, hit_bonus, armor)]

\* Ship.integrate: every derived statistic is recomputed from the hull, the
\* equipped parts, missiles_fired and the owner's is_defending flag
integrate(s, is_defending) ==
    LET a_hull     == get_hulls[s.hull]
        counts     == WeaponCounts(s)
        net_damage == SumSeq([i \in DOMAIN s.parts |->
                              IF counts[i]
                              THEN get_parts[s.parts[i]].damage
                                   * get_parts[s.parts[i]].nshots
                              ELSE 0])
        armor      == 1 + SumSeq(PartValues(s.parts, "armor"))
        hit_bonus  == SumSeq(PartValues(s.parts, "hit_bonus"))
    IN  [s EXCEPT
            !.net_damage = net_damage,
            !.net_power  = a_hull.bonus_power + SumSeq(PartValues(s.parts, "power")),
            !.armor      = armor,
            !.shield     = SumSeq(PartValues(s.parts, "shield")),
            !.hit_bonus  = hit_bonus,
            !.initiative = 2 * a_hull.bonus_initiative
                           + (IF is_defending = 1 THEN 1 ELSE 0)
                           + 2 * SumSeq(PartValues(s.parts, "initiative")),
            !.has_drive  = IF \E i \in DOMAIN s.parts :
                                 get_parts[s.parts[i]].is_drive = 1
                           THEN 1 ELSE 0,
            !.has_weapon = IF \E i \in DOMAIN s.parts : counts[i] THEN 1 ELSE 0,
            !.kill_priority = calc_kill_priority(net_damage, hit_bonus, armor)]

\* Ship.__init__ followed by build_default / build_dupe: the parts list is
\* the hull's default loadout (the prototype's parts for a duplicate)
Ship(id, a_hull, a_player, parts) ==
    integrate([id |-> id, hull |-> a_hull, owner |-> a_player.id,
               parts |-> parts, missiles_fired |-> 0,
               net_damage |-> 0, net_power |-> 0, armor |-> 1, shield |-> 0,
               hit_bonus |-> 0, initiative |-> 0, has_drive |-> 0,
               has_weapon |-> 0, kill_priority |-> [num |-> 0, den |-> 6]],
              a_player.is_defending)

\* Ship.verify_legality
verify_legality(s) ==
    /\ s.net_power >= 0
    /\ get_hulls[s.hull].needs_drive = 1 => s.has_drive = 1
    /\ Cardinality({i \in DOMAIN s.parts : s.parts[i] = "<Empty Slot>"})
          <= Cardinality({i \in DOMAIN get_hulls[s.hull].default_parts :
                            get_hulls[s.hull].default_parts[i] = "<Empty Slot>"})

\* Ship.verify_design_decisions: a design without a weapon part is kept
\* only if the user answers that it is intentional
verify_design_decisions(s, intentional) ==
    (\E i \in DOMAIN s.parts : get_parts[s.parts[i]].is_weapon = 1) \/ intentional

\* Ship.verify
verify(s, intentional) == verify_legality(s) /\ verify_design_decisions(s, intentional)

(***************************************************************************)
(* Player (src/player.py).                                                 *)
(***************************************************************************)
Player(id, is_defending) == [id |-> id, is_defending |-> is_defending, fleet |-> <<>>]

\* key(x) < key(y) for the key -kill_priority, over exact fractions
KillPriorityLt(h) ==
    [x \in DOMAIN h, y \in DOMAIN h |->
        h[x].kill_priority.num * h[y].kill_priority.den
            > h[y].kill_priority.num * h[x].kill_priority.den]

\* Player.sort_fleet: sorted(self.fleet, key=lambda a_ship: -a_ship.kill_priority)
sort_fleet(h, fleet) == sorted(fleet, KillPriorityLt(h))

(***************************************************************************)
(* Scoreboard (src/scoreboard.py).  A dictionary keyed by hull names is a  *)
(* function from the set of its keys to the lists it holds.                *)
(***************************************************************************)
\* the hull names of the ships of a fleet
HullNames(h, fleet) == {h[fleet[i]].hull : i \in DOMAIN fleet}

\* sum(1 for a_ship in winner.fleet if a_ship.hull.name == key)
CountHull(h, fleet, key) == Cardinality({i \in DOMAIN fleet : h[fleet[i]].hull = key})

\* Scoreboard.__init__
Scoreboard(h, a_defender, an_attacker) ==
    [defender |-> a_defender.id,
     def_wins |-> 0,
     def_ships_remaining |-> [key \in HullNames(h, a_defender.fleet) |-> <<>>],
     attacker |-> an_attacker.id,
     atk_wins |-> 0,
     atk_ships_remaining |-> [key \in HullNames(h, an_attacker.fleet) |-> <<>>],
     stalemates |-> 0]

\* a record_victory that credits the defender whoever won
record_victory_any_side(sb, h, winner) ==
    [sb EXCEPT
        !.def_wins = @ + 1,
        !.def_ships_remaining =
            [key \in DOMAIN @ |-> Append(@[key], CountHull(h, winner.fleet, key))]]

\* Scoreboard.record_victory
record_victory(sb, h, winner) ==
    IF winner.id = sb.defender
    THEN [sb EXCEPT
            !.def_wins = @ + 1,
            !.def_ships_remaining =
                [key \in DOMAIN @ |-> Append(@[key], CountHull(h, winner.fleet, key))]]
    ELSE [sb EXCEPT
            !.atk_wins = @ + 1,
            !.atk_ships_remaining =
                [key \in DOMAIN @ |-> Append(@[key], CountHull(h, winner.fleet, key))]]

\* a record_stalemate that counts the stalemate as a win of the defender
record_stalemate_as_win(sb) == [sb EXCEPT !.def_wins = @ + 1]

\* Scoreboard.record_stalemate
record_stalemate(sb) == [sb EXCEPT !.stalemates = @ + 1]

(***************************************************************************)
(* ECS (src/ecs.py): construction.                                         *)
(***************************************************************************)
\* two players, neither one defending
setup_players_no_defender == <<Player(1, 0), Player(2, 0)>>

\* ECS.setup_players: two players, the first one defends
setup_players == <<Player(1, 1), Player(2, 0)>>

\* the (player, hull) pairs in the order assemble_fleets visits them
AssemblyOrder ==
    [w \in 1..(2 * Len(hull_names)) |->
        [player |-> ((w - 1) \div Len(hull_names)) + 1,
         hull   |-> hull_names[((w - 1) % Len(hull_names)) + 1]]]

\* the hulls of which the simulated games field ships
Fielded == {"Interceptor", "Starbase"}

\* the hull counts the user may enter: get_int(..., True, 0, a_hull.nmax);
\* an immobile hull is skipped for a player who is not defending; the
\* count of a hull that is not fielded is 0
FleetSizes ==
    {[p \in 1..2 |-> [hn \in DOMAIN get_hulls |->
                        IF hn \in Fielded THEN n[p][hn] ELSE 0]] :
        n \in {m \in [1..2 -> [Fielded ->
                        0..SumSeq([i \in DOMAIN hull_names |->
                                     get_hulls[hull_names[i]].nmax])]] :
                 \A p \in 1..2 : \A hn \in Fielded :
                    /\ m[p][hn] <= get_hulls[hn].nmax
                    /\ (get_hulls[hn].is_mobile = 0 /\ setup_players[p].is_defending = 0)
                          => m[p][hn] = 0}}

\* ECS.assemble_fleets, visits w..end: one prototype, equipped with
\* loadout[p][hn], and nships duplicates of it per hull type; Ship.ships
\* numbers every Ship object that is constructed
RECURSIVE assemble(_, _, _, _)
assemble(w, nships, loadout, acc) ==
    IF w > Len(AssemblyOrder) THEN acc
    ELSE LET p      == AssemblyOrder[w].player
             hn     == AssemblyOrder[w].hull
             n      == nships[p][hn]
             a_hull == get_hulls[hn]
             proto  == Ship(acc.ships, hn, acc.players[p], loadout[p][hn])
             dupes  == [i \in 1..n |->
                          Ship(acc.ships + i, hn, acc.players[p], proto.parts)]
             addrs  == [i \in 1..n |-> Len(acc.heap) + i]
         IN  IF n > 0
             THEN assemble(w + 1, nships, loadout,
                    [heap    |-> acc.heap \o dupes,
                     players |-> [acc.players EXCEPT
                                    ![p].fleet = acc.players[p].fleet \o addrs],
                     ships   |-> acc.ships + n + 1])
             ELSE assemble(w + 1, nships, loadout, acc)

\* Ship.build_default: the parts of every prototype are its hull's default loadout
build_default == [p \in 1..2 |-> [hn \in DOMAIN get_hulls |-> get_hulls[hn].default_parts]]

\* ECS.assemble_fleets with the parts the prototypes are built with
assemble_fleets_with(nships, loadout) ==
    LET built == assemble(1, nships, loadout,
                          [heap |-> <<>>, players |-> setup_players, ships |-> 0])
    IN  [heap    |-> built.heap,
         players |-> [p \in 1..2 |->
                        [built.players[p] EXCEPT
                            !.fleet = sort_fleet(built.heap, built.players[p].fleet)]]]

\* ECS.assemble_fleets when every ship is built with the default parts
assemble_fleets(nships) == assemble_fleets_with(nships, build_default)

\* the distance between a template object and its copy in a trial
CopyOffset == SumSeq([w \in DOMAIN AssemblyOrder |->
                        get_hulls[AssemblyOrder[w].hull].nmax])

\* a copy that shares the Ship objects with the original
deepcopy_shallow(h, a_player) == [player |-> a_player, heap |-> h]

\* copy.deepcopy(a_player): a new Player whose fleet holds new Ship objects
deepcopy(h, a_player) ==
    LET fleet == [i \in DOMAIN a_player.fleet |-> a_player.fleet[i] + CopyOffset]
        new   == Range(fleet)
    IN  [player |-> [a_player EXCEPT !.fleet = fleet],
         heap   |-> [a \in (DOMAIN h) \cup new |->
                        IF a \in new THEN h[a - CopyOffset] ELSE h[a]]]

(***************************************************************************)
(* ECS: attack resolution.  st = [heap, fleet, firing_seq] where fleet is  *)
(* opponent.fleet; an attack is <<to-hit roll, hit bonus, damage>>.        *)
(***************************************************************************)
\* index of the first element of seq (addresses) whose ship has this id, 0 if none
IndexOfId(h, seq, target_id) ==
    IF \E i \in DOMAIN seq : h[seq[i]].id = target_id
    THEN CHOOSE i \in DOMAIN seq :
            /\ h[seq[i]].id = target_id
            /\ \A j \in 1..(i - 1) : h[seq[j]].id # target_id
    ELSE 0

\* destroy_ship that forgets the firing sequence
destroy_ship_keeps_queue(st, target_id) ==
    LET i == IndexOfId(st.heap, st.fleet, target_id)
    IN  [st EXCEPT !.fleet = IF i > 0 THEN DelAt(st.fleet, i) ELSE st.fleet]

\* ECS.destroy_ship
destroy_ship(st, target_id) ==
    LET i == IndexOfId(st.heap, st.fleet, target_id)
        j == IndexOfId(st.heap, st.firing_seq, target_id)
    IN  [st EXCEPT
            !.fleet      = IF i > 0 THEN DelAt(st.fleet, i) ELSE st.fleet,
            !.firing_seq = IF j > 0 THEN DelAt(st.firing_seq, j) ELSE st.firing_seq]

\* apply_damage that destroys a ship whose armor has dropped to 1
apply_damage_early(st, an_attack, target_id) ==
    LET i == IndexOfId(st.heap, st.fleet, target_id) IN
    IF i = 0 THEN st
    ELSE LET a    == st.fleet[i]
             hurt == [st EXCEPT !.heap[a].armor = st.heap[a].armor - an_attack[3]]
         IN  IF hurt.heap[a].armor <= 1
             THEN destroy_ship(hurt, target_id)
             ELSE hurt

\* apply_damage that keeps a ship whose armor has dropped to 0
apply_damage_late(st, an_attack, target_id) ==
    LET i == IndexOfId(st.heap, st.fleet, target_id) IN
    IF i = 0 THEN st
    ELSE LET a    == st.fleet[i]
             hurt == [st EXCEPT !.heap[a].armor = st.heap[a].armor - an_attack[3]]
         IN  IF hurt.heap[a].armor < 0
             THEN destroy_ship(hurt, target_id)
             ELSE hurt

\* ECS.apply_damage
apply_damage(st, an_attack, target_id) ==
    LET i == IndexOfId(st.heap, st.fleet, target_id) IN
    IF i = 0 THEN st
    ELSE LET a    == st.fleet[i]
             hurt == [st EXCEPT !.heap[a].armor = st.heap[a].armor - an_attack[3]]
         IN  IF hurt.heap[a].armor < 1
             THEN destroy_ship(hurt, target_id)
             ELSE hurt

\* apply_attacks without the branch for a natural roll of 1
apply_attack_no_miss(st, an_attack) ==
    IF Len(st.fleet) = 0 THEN st
    ELSE IF an_attack[1] = 6
         THEN apply_damage(st, an_attack, st.heap[st.fleet[1]].id)
    ELSE LET hit_roll == an_attack[1] + an_attack[2]
             canhit   == {i \in DOMAIN st.fleet :
                            hit_roll - st.heap[st.fleet[i]].shield > 5}
         IN  IF canhit = {} THEN st
             ELSE LET i == CHOOSE i \in canhit : \A j \in canhit : i <= j
                  IN  apply_damage(st, an_attack, st.heap[st.fleet[i]].id)

\* apply_attacks without the branch for a natural roll of 6
apply_attack_no_sure_hit(st, an_attack) ==
    IF Len(st.fleet) = 0 THEN st
    ELSE IF an_attack[1] = 1 THEN st
    ELSE LET hit_roll == an_attack[1] + an_attack[2]
             canhit   == {i \in DOMAIN st.fleet :
                            hit_roll - st.heap[st.fleet[i]].shield > 5}
         IN  IF canhit = {} THEN st
             ELSE LET i == CHOOSE i \in canhit : \A j \in canhit : i <= j
                  IN  apply_damage(st, an_attack, st.heap[st.fleet[i]].id)

\* apply_attacks that hits when hit_roll - shield reaches 5
apply_attack_off_by_one(st, an_attack) ==
    IF Len(st.fleet) = 0 THEN st
    ELSE IF an_attack[1] = 1 THEN st
    ELSE IF an_attack[1] = 6
         THEN apply_damage(st, an_attack, st.heap[st.fleet[1]].id)
    ELSE LET hit_roll == an_attack[1] + an_attack[2]
             canhit   == {i \in DOMAIN st.fleet :
                            hit_roll - st.heap[st.fleet[i]].shield >= 5}
         IN  IF canhit = {} THEN st
             ELSE LET i == CHOOSE i \in canhit : \A j \in canhit : i <= j
                  IN  apply_damage(st, an_attack, st.heap[st.fleet[i]].id)

\* ECS.apply_attacks, one iteration of `for attack in attacks'
apply_attack(st, an_attack) ==
    IF Len(st.fleet) = 0 THEN st
    ELSE IF an_attack[1] = 1 THEN st
    ELSE IF an_attack[1] = 6
         THEN apply_damage(st, an_attack, st.heap[st.fleet[1]].id)
    ELSE LET hit_roll == an_attack[1] + an_attack[2]
             canhit   == {i \in DOMAIN st.fleet :
                            hit_roll - st.heap[st.fleet[i]].shield > 5}
         IN  IF canhit = {} THEN st
             ELSE LET i == CHOOSE i \in canhit : \A j \in canhit : i <= j
                  IN  apply_damage(st, an_attack, st.heap[st.fleet[i]].id)

\* ECS.apply_attacks
RECURSIVE apply_attacks(_, _)
apply_attacks(st, attacks) ==
    IF attacks = <<>> \/ Len(st.fleet) = 0 THEN st
    ELSE apply_attacks(apply_attack(st, Head(attacks)), Tail(attacks))

(***************************************************************************)
(* ECS: rolling attacks.                                                   *)
(***************************************************************************)
\* the comparison of a sort by descending initiative
InitiativeLt_descending(h) ==
    [x \in DOMAIN h, y \in DOMAIN h |-> h[x].initiative > h[y].initiative]

\* key(x) < key(y) for the key initiative
InitiativeLt(h) ==
    [x \in DOMAIN h, y \in DOMAIN h |-> h[x].initiative < h[y].initiative]

\* the two fleets one after the other, not sorted
FiringSeq_unsorted(h, d, a) == d.fleet \o a.fleet

\* roll_attacks: sorted(defender.fleet + attacker.fleet, key=initiative)
FiringSeq(h, d, a) == sorted(d.fleet \o a.fleet, InitiativeLt(h))

\* roll_attacks: firing_now, the ships popped from the end of firing_seq
\* while their initiative equals that of the ship popped before them
FiringNow(h, fs) ==
    LET n == Len(fs)
        k == CHOOSE k \in 1..n :
                /\ \A j \in (n - k + 1)..n : h[fs[j]].initiative = h[fs[n]].initiative
                /\ k = n \/ h[fs[n - k]].initiative # h[fs[n]].initiative
    IN  [i \in 1..k |-> fs[n - i + 1]]

\* shots from every weapon part, whatever the phase
Shots_all_weapons(a_ship, firing_missiles) ==
    IF a_ship.has_weapon = 0 THEN <<>>
    ELSE Flatten([i \in DOMAIN a_ship.parts |->
            LET a_part == get_parts[a_ship.parts[i]] IN
            IF a_part.is_weapon = 1
            THEN [k \in 1..a_part.nshots |-> <<a_ship.hit_bonus, a_part.damage>>]
            ELSE <<>>])

\* Ship.roll_conventional_attacks / Ship.roll_missile_attacks without the
\* dice: <<hit bonus, damage>> of every shot, in the order the tuples are
\* appended; a ship without has_weapon returns None
Shots(a_ship, firing_missiles) ==
    IF a_ship.has_weapon = 0 THEN <<>>
    ELSE Flatten([i \in DOMAIN a_ship.parts |->
            LET a_part == get_parts[a_ship.parts[i]] IN
            IF a_part.is_weapon = 1
               /\ a_part.is_missile = (IF firing_missiles THEN 1 ELSE 0)
            THEN [k \in 1..a_part.nshots |-> <<a_ship.hit_bonus, a_part.damage>>]
            ELSE <<>>])

\* the shots of the whole firing group
GroupShots(h, firing_now, firing_missiles) ==
    Flatten([i \in DOMAIN firing_now |-> Shots(h[firing_now[i]], firing_missiles)])

\* Ship.roll_missile_attacks, its effect on the ship: missiles_fired is set
\* and the ship is reintegrated
roll_missile_attacks(a_ship, is_defending) ==
    IF a_ship.has_weapon = 0 THEN a_ship
    ELSE integrate([a_ship EXCEPT !.missiles_fired = 1], is_defending)

\* the player object a ship's owner field refers to
Owner(a_ship, d, a) == IF a_ship.owner = d.id THEN d ELSE a

\* roll_attacks, one iteration of its while loop with the dice `rolls'
roll_group(h, d, a, fs, firing_missiles, rolls) ==
    LET firing_now == FiringNow(h, fs)
        rest       == SubSeq(fs, 1, Len(fs) - Len(firing_now))
        shots      == GroupShots(h, firing_now, firing_missiles)
        attacks    == [i \in DOMAIN shots |-> <<rolls[i], shots[i][1], shots[i][2]>>]
        rolled     == IF firing_missiles
                      THEN [x \in DOMAIN h |->
                              IF x \in Range(firing_now)
                              THEN roll_missile_attacks(h[x],
                                       Owner(h[x], d, a).is_defending)
                              ELSE h[x]]
                      ELSE h
        at_attacker == h[firing_now[1]].owner = d.id
        st         == apply_attacks(
                         [heap |-> rolled,
                          fleet |-> IF at_attacker THEN a.fleet ELSE d.fleet,
                          firing_seq |-> rest],
                         attacks)
    IN  IF attacks = <<>>
        THEN [heap |-> rolled, defender |-> d, attacker |-> a, firing_seq |-> rest,
              attacks |-> attacks, target |-> 0]
        ELSE [heap |-> st.heap,
              defender |-> IF at_attacker THEN d ELSE [d EXCEPT !.fleet = st.fleet],
              attacker |-> IF at_attacker THEN [a EXCEPT !.fleet = st.fleet] ELSE a,
              firing_seq |-> st.firing_seq,
              attacks |-> attacks,
              target |-> IF at_attacker THEN a.id ELSE d.id]

\* the players that lost a ship, or armor of a ship, in a firing group
Struck(h, d, a, r) ==
    {p \in {d.id, a.id} :
        \/ (IF p = d.id THEN r.defender.fleet # d.fleet ELSE r.attacker.fleet # a.fleet)
        \/ \E x \in DOMAIN h : h[x].owner = p /\ r.heap[x].armor < h[x].armor}

\* a roll_attacks loop that goes on while a ship has not fired
Firing_to_the_end == Len(firing_seq) > 0

\* the loop condition of roll_attacks
Firing == Len(firing_seq) > 0 /\ Len(defender.fleet) > 0 /\ Len(attacker.fleet) > 0

\* a round loop that gives up one round early
Fighting_short(d, a, r) == Len(d.fleet) > 0 /\ Len(a.fleet) > 0 /\ r < RoundCap - 1

\* the loop condition of simulate_combat
Fighting(d, a, r) == Len(d.fleet) > 0 /\ Len(a.fleet) > 0 /\ r < RoundCap

(***************************************************************************)
(* State machine.                                                          *)
(***************************************************************************)
NoPlayer == Player(0, 0)
NoAttack == [tuple |-> <<0, 0, 0>>, opponent |-> 0]
NoFire == [round |-> 0, missiles |-> FALSE, ships |-> <<>>, had |-> <<>>, attacks |-> <<>>, target |-> 0, struck |-> {}, six |-> FALSE]
NoScoreboard == Scoreboard(<<>>, NoPlayer, NoPlayer)
NoPrompt == [constrained |-> FALSE, low_lim |-> 0, high_lim |-> 1, response |-> <<>>, value |-> 0]
\* assemble_fleets has not begun: Ship.ships is 0 and every part is available
NoAssembly == [w |-> 0, ships |-> 0, is_available |-> [n \in DOMAIN get_parts |-> 1], prototypes |-> <<>>, default |-> <<>>]

\* ECS.__init__: the state after setup_players and assemble_fleets
Init ==
    \E nships \in FleetSizes :
        LET ecs == assemble_fleets(nships) IN
        /\ players = ecs.players
        /\ heap = [a \in DOMAIN ecs.heap |-> ecs.heap[a]]
        /\ defender = NoPlayer
        /\ attacker = NoPlayer
        /\ firing_seq = <<>>
        /\ combat_round = 0
        /\ sim_results = <<0, 0, 0>>
        /\ nsims = 0
        /\ sim_num = 0
        /\ attack = NoAttack
        /\ salvo = NoFire
        /\ scoreboard = NoScoreboard
        /\ prompt = NoPrompt
        /\ assembly = NoAssembly
        /\ pc = "setup"

\* a run_simulations that does not look at the number of players
RunSimulations_unchecked ==
    /\ pc = "setup"
    /\ \E n \in 1..MaxSims : nsims' = n
    /\ sim_num' = 0
    /\ pc' = "loop"
    /\ UNCHANGED <<players, heap, defender, attacker, firing_seq, combat_round,
                   sim_results, attack, salvo,
                   scoreboard, prompt, assembly>>

\* run_simulations up to its loop: the trial count is read
RunSimulations ==
    /\ pc = "setup"
    /\ Len(players) = 2
    /\ \E n \in 1..MaxSims : nsims' = n
    /\ sim_num' = 0
    /\ pc' = "loop"
    /\ UNCHANGED <<players, heap, defender, attacker, firing_seq, combat_round,
                   sim_results, attack, salvo,
                   scoreboard, prompt, assembly>>

\* run_simulations, one iteration up to the first roll_attacks of
\* simulate_combat: both players are copied and the missile phase begins
StartTrial ==
    /\ pc = "loop"
    /\ sim_num < nsims
    /\ LET c1 == deepcopy(heap, players[1])
           c2 == deepcopy(c1.heap, players[2])
       IN  /\ heap' = c2.heap
           /\ defender' = c1.player
           /\ attacker' = c2.player
           /\ firing_seq' = FiringSeq(c2.heap, c1.player, c2.player)
    /\ sim_num' = sim_num + 1
    /\ combat_round' = 1
    /\ pc' = "missile"
    /\ UNCHANGED <<players, sim_results, nsims, attack, salvo,
                   scoreboard, prompt, assembly>>

\* a firing group whose outcome does not follow the dice it reports
Fire_unscripted(recording) ==
    /\ pc \in {"missile", "round"}
    /\ Firing
    /\ \E firing_now \in {FiringNow(heap, firing_seq)} :
       \E shots \in {GroupShots(heap, firing_now, pc = "missile")} :
       \E rolls \in [DOMAIN shots -> 1..DieSides] :
       \E other \in [DOMAIN shots -> 1..DieSides] :
       \E r \in {[roll_group(heap, defender, attacker, firing_seq,
                             pc = "missile", other)
                     EXCEPT !.attacks = [i \in DOMAIN shots |->
                                           <<rolls[i], shots[i][1], shots[i][2]>>]]} :
          /\ heap' = r.heap
          /\ defender' = r.defender
          /\ attacker' = r.attacker
          /\ firing_seq' = r.firing_seq
          /\ salvo' =
                IF recording
                THEN [round    |-> combat_round,
                      missiles |-> pc = "missile",
                      ships    |-> firing_now,
                      had      |-> (IF salvo.round = combat_round
                                       /\ salvo.missiles = (pc = "missile")
                                    THEN salvo.had ELSE <<>>) \o firing_now,
                      attacks  |-> r.attacks,
                      target   |-> r.target,
                      struck   |-> Struck(heap, defender, attacker, r),
                      six      |-> salvo.six
                                   \/ \E k \in DOMAIN r.attacks :
                                         r.attacks[k][1] = DieSides]
                ELSE salvo
    /\ UNCHANGED <<players, combat_round, sim_results, nsims, sim_num, attack,
                   scoreboard, prompt, assembly, pc>>

\* roll_attacks: one group of ships of equal initiative fires
\* roll_attacks, one iteration of its while loop: the group is popped, its
\* attacks are rolled and applied; a recorded combat keeps them in `salvo'
Fire(recording) ==
    /\ pc \in {"missile", "round"}
    /\ Firing
    /\ \E firing_now \in {FiringNow(heap, firing_seq)} :
       \E shots \in {GroupShots(heap, firing_now, pc = "missile")} :
       \E rolls \in [DOMAIN shots -> 1..DieSides] :
       \E r \in {roll_group(heap, defender, attacker, firing_seq,
                            pc = "missile", rolls)} :
          /\ heap' = r.heap
          /\ defender' = r.defender
          /\ attacker' = r.attacker
          /\ firing_seq' = r.firing_seq
          /\ salvo' =
                IF recording
                THEN [round    |-> combat_round,
                      missiles |-> pc = "missile",
                      ships    |-> firing_now,
                      had      |-> (IF salvo.round = combat_round
                                       /\ salvo.missiles = (pc = "missile")
                                    THEN salvo.had ELSE <<>>) \o firing_now,
                      attacks  |-> r.attacks,
                      target   |-> r.target,
                      struck   |-> Struck(heap, defender, attacker, r),
                      six      |-> salvo.six
                                   \/ \E k \in DOMAIN r.attacks :
                                         r.attacks[k][1] = DieSides]
                ELSE salvo
    /\ UNCHANGED <<players, combat_round, sim_results, nsims, sim_num, attack,
                   scoreboard, prompt, assembly, pc>>

\* roll_attacks: one group of ships of equal initiative fires
FireGroup == Fire(FALSE)

\* the same step in a recorded combat
FireRecorded == Fire(TRUE)

\* simulate_combat after roll_attacks returned with (d, a) in round r: the
\* test of the round loop, which starts the next roll_attacks or leaves
RoundLoop(h, d, a) ==
    IF Fighting(d, a, combat_round')
    THEN /\ firing_seq' = FiringSeq(h, d, a)
         /\ pc' = "round"
    ELSE /\ firing_seq' = <<>>
         /\ pc' = "classify"

\* simulate_combat: the missile phase is over, both fleets are sorted again
EndMissilePhase ==
    /\ pc = "missile"
    /\ ~Firing
    /\ defender' = [defender EXCEPT !.fleet = sort_fleet(heap, defender.fleet)]
    /\ attacker' = [attacker EXCEPT !.fleet = sort_fleet(heap, attacker.fleet)]
    /\ combat_round' = combat_round
    /\ RoundLoop(heap, defender', attacker')
    /\ UNCHANGED <<players, heap, sim_results, nsims, sim_num, attack, salvo,
                   scoreboard, prompt, assembly>>

\* a round that ends without counting
EndRound_no_count ==
    /\ pc = "round"
    /\ ~Firing
    /\ combat_round' = combat_round
    /\ RoundLoop(heap, defender, attacker)
    /\ UNCHANGED <<players, heap, defender, attacker, sim_results, nsims,
                   sim_num, attack, salvo,
                   scoreboard, prompt, assembly>>

\* simulate_combat: a round is over, combat_round += 1
EndRound ==
    /\ pc = "round"
    /\ ~Firing
    /\ combat_round' = combat_round + 1
    /\ RoundLoop(heap, defender, attacker)
    /\ UNCHANGED <<players, heap, defender, attacker, sim_results, nsims,
                   sim_num, attack, salvo,
                   scoreboard, prompt, assembly>>

\* a classification that credits the wrong player
Classify_swapped ==
    /\ pc = "classify"
    /\ sim_results' =
          IF Len(defender.fleet) < 1
          THEN [sim_results EXCEPT ![1] = @ + 1]
          ELSE IF Len(attacker.fleet) < 1
          THEN [sim_results EXCEPT ![2] = @ + 1]
          ELSE [sim_results EXCEPT ![Len(sim_results)] = @ + 1]
    /\ pc' = "loop"
    /\ UNCHANGED <<players, heap, defender, attacker, firing_seq, combat_round,
                   nsims, sim_num, attack, salvo,
                   scoreboard, prompt, assembly>>

\* simulate_combat: the result of the combat is recorded
Classify ==
    /\ pc = "classify"
    /\ sim_results' =
          IF Len(defender.fleet) < 1
          THEN [sim_results EXCEPT ![2] = @ + 1]
          ELSE IF Len(attacker.fleet) < 1
          THEN [sim_results EXCEPT ![1] = @ + 1]
          ELSE [sim_results EXCEPT ![Len(sim_results)] = @ + 1]
    /\ pc' = "loop"
    /\ UNCHANGED <<players, heap, defender, attacker, firing_seq, combat_round,
                   nsims, sim_num, attack, salvo,
                   scoreboard, prompt, assembly>>

\* a loop that stops one trial short
Finish_early ==
    /\ pc = "loop"
    /\ ~(sim_num < nsims - 1)
    /\ pc' = "done"
    /\ UNCHANGED <<players, heap, defender, attacker, firing_seq, combat_round,
                   sim_results, nsims, sim_num, attack, salvo,
                   scoreboard, prompt, assembly>>

\* run_simulations: every trial has run
Finish ==
    /\ pc = "loop"
    /\ ~(sim_num < nsims)
    /\ pc' = "done"
    /\ UNCHANGED <<players, heap, defender, attacker, firing_seq, combat_round,
                   sim_results, nsims, sim_num, attack, salvo,
                   scoreboard, prompt, assembly>>

Next ==
    \/ RunSimulations
    \/ StartTrial
    \/ FireGroup
    \/ EndMissilePhase
    \/ EndRound
    \/ Classify
    \/ Finish

Spec == Init /\ [][Next]_vars

(***************************************************************************)
(* A recorded combat: one trial between fleets whose Interceptors are      *)
(* built with the default parts or with custom parts (Ship.build_custom),  *)
(* in which every firing group and its attack tuples are kept in `salvo'.  *)
(***************************************************************************)
\* custom Interceptor loadouts
MissileBoat == <<"Flux Missile", "Electron Computer", "Nuclear Drive", "Hull">>
Shielded == <<"Ion Cannon", "Gauss Shield", "Nuclear Drive", "Hull">>
DuelDefender == <<"Siege Cannon", "Improved Hull", "Improved Hull", "Nuclear Drive">>
DuelAttacker == <<"Heavy Cannon", "Improved Hull", "Nuclear Drive", "Nuclear Source">>

\* the Interceptor loadouts of <<defender, attacker>> that are simulated
Designs ==
    {<<get_hulls["Interceptor"].default_parts, MissileBoat>>,
     <<Shielded, Shielded>>,
     <<DuelDefender, DuelAttacker>>}

\* Ship.build_custom: the parts selected for the Interceptor prototypes
build_custom(design) ==
    [p \in 1..2 |-> [hn \in DOMAIN get_hulls |->
        IF hn = "Interceptor" THEN design[p] ELSE get_hulls[hn].default_parts]]

\* one Interceptor a side and nothing else
OneOnOne(nships) ==
    \A p \in 1..2 : \A hn \in DOMAIN get_hulls :
        nships[p][hn] = (IF hn = "Interceptor" THEN 1 ELSE 0)

\* the fleets that are simulated: every fleet size with the first design, a
\* duel of two Interceptors with the others
Fleets ==
    {f \in FleetSizes \X Designs :
        f[2][1] = get_hulls["Interceptor"].default_parts \/ OneOnOne(f[1])}

\* the first trial of a run of one simulation, at its missile phase
CombatInit ==
    \E f \in Fleets :
    \E nships \in {f[1]}, design \in {f[2]} :
    \E ecs \in {assemble_fleets_with(nships, build_custom(design))} :
    \E c1 \in {deepcopy([a \in DOMAIN ecs.heap |-> ecs.heap[a]], ecs.players[1])} :
    \E c2 \in {deepcopy(c1.heap, ecs.players[2])} :
        /\ \A a \in DOMAIN ecs.heap : verify(ecs.heap[a], FALSE)
        /\ players = ecs.players
        /\ heap = c2.heap
        /\ defender = c1.player
        /\ attacker = c2.player
        /\ firing_seq = FiringSeq(c2.heap, c1.player, c2.player)
        /\ combat_round = 1
        /\ sim_results = <<0, 0, 0>>
        /\ nsims = 1
        /\ sim_num = 1
        /\ attack = NoAttack
        /\ salvo = NoFire
        /\ scoreboard = NoScoreboard
        /\ prompt = NoPrompt
        /\ assembly = NoAssembly
        /\ pc = "missile"

CombatNext ==
    \/ FireRecorded
    \/ EndMissilePhase
    \/ EndRound
    \/ Classify
    \/ Finish

SpecCombat == CombatInit /\ [][CombatNext]_vars

(***************************************************************************)
(* The Scoreboard on its own: it is built for the two template players and *)
(* then told the results of combats, a victory with the winner's copy and  *)
(* the ships it has left, or a stalemate.                                  *)
(***************************************************************************)
\* the fleets a player's copy can be left with: any ships destroyed
Survivors(fleet) ==
    {SelectSeq(fleet, LAMBDA x : x \in kept) : kept \in SUBSET Range(fleet)}

\* the number of results recorded
Recorded(sb) == sb.def_wins + sb.atk_wins + sb.stalemates

\* Scoreboard(defender, attacker) for the assembled players, and their copies
ScoreboardInit ==
    \E nships \in FleetSizes :
    \E ecs \in {assemble_fleets(nships)} :
    \E c1 \in {deepcopy([a \in DOMAIN ecs.heap |-> ecs.heap[a]], ecs.players[1])} :
    \E c2 \in {deepcopy(c1.heap, ecs.players[2])} :
        /\ players = ecs.players
        /\ heap = c2.heap
        /\ defender = c1.player
        /\ attacker = c2.player
        /\ firing_seq = <<>>
        /\ combat_round = 0
        /\ sim_results = <<0, 0, 0>>
        /\ nsims = 0
        /\ sim_num = 0
        /\ attack = NoAttack
        /\ salvo = NoFire
        /\ scoreboard = Scoreboard(c2.heap, ecs.players[1], ecs.players[2])
        /\ prompt = NoPrompt
        /\ assembly = NoAssembly
        /\ pc = "scoreboard"

\* record_victory(winner) with the defender's copy and the ships it has left
RecordDefenderVictory ==
    /\ Recorded(scoreboard) < MaxRecords
    /\ \E c \in {deepcopy(heap, players[1])} :
       \E fleet \in Survivors(c.player.fleet) :
          /\ defender' = [c.player EXCEPT !.fleet = fleet]
          /\ scoreboard' = record_victory(scoreboard, heap, defender')
    /\ pc' = "record_victory(defender)"
    /\ UNCHANGED <<players, heap, attacker, firing_seq, combat_round, sim_results,
                   nsims, sim_num, attack, salvo, prompt, assembly>>

\* record_victory(winner) with the attacker's copy and the ships it has left
RecordAttackerVictory ==
    /\ Recorded(scoreboard) < MaxRecords
    /\ \E c \in {deepcopy(heap, players[2])} :
       \E fleet \in Survivors(c.player.fleet) :
          /\ attacker' = [c.player EXCEPT !.fleet = fleet]
          /\ scoreboard' = record_victory(scoreboard, heap, attacker')
    /\ pc' = "record_victory(attacker)"
    /\ UNCHANGED <<players, heap, defender, firing_seq, combat_round, sim_results,
                   nsims, sim_num, attack, salvo, prompt, assembly>>

\* record_stalemate()
RecordStalemate ==
    /\ Recorded(scoreboard) < MaxRecords
    /\ scoreboard' = record_stalemate(scoreboard)
    /\ pc' = "record_stalemate"
    /\ UNCHANGED <<players, heap, defender, attacker, firing_seq, combat_round,
                   sim_results, nsims, sim_num, attack, salvo, prompt, assembly>>

ScoreboardNext ==
    \/ RecordDefenderVictory
    \/ RecordAttackerVictory
    \/ RecordStalemate

SpecScoreboard == ScoreboardInit /\ [][ScoreboardNext]_vars

(***************************************************************************)
(* run_simulations on an ECS whose list of players has been given any      *)
(* length: with two players it runs as in Spec, otherwise it raises.       *)
(***************************************************************************)
\* the first n of the players of the ECS, further ones without ships
PlayerList(ecs_players, n) ==
    [i \in 1..n |-> IF i <= Len(ecs_players) THEN ecs_players[i] ELSE Player(i, 0)]

\* the constructed ECS with a list of 0..MaxPlayers players
PlayersInit ==
    \E nships \in FleetSizes, n \in 0..MaxPlayers :
    \E ecs \in {assemble_fleets(nships)} :
        /\ players = PlayerList(ecs.players, n)
        /\ heap = [a \in DOMAIN ecs.heap |-> ecs.heap[a]]
        /\ defender = NoPlayer
        /\ attacker = NoPlayer
        /\ firing_seq = <<>>
        /\ combat_round = 0
        /\ sim_results = <<0, 0, 0>>
        /\ nsims = 0
        /\ sim_num = 0
        /\ attack = NoAttack
        /\ salvo = NoFire
        /\ scoreboard = NoScoreboard
        /\ prompt = NoPrompt
        /\ assembly = NoAssembly
        /\ pc = "setup"

\* run_simulations: the number of players is not two, RuntimeError is raised
RunSimulationsRejected ==
    /\ pc = "setup"
    /\ Len(players) # 2
    /\ pc' = "error"
    /\ UNCHANGED <<players, heap, defender, attacker, firing_seq, combat_round,
                   sim_results, nsims, sim_num, attack, salvo, scoreboard, prompt, assembly>>

PlayersNext ==
    \/ RunSimulationsRejected
    \/ Next

SpecPlayers == PlayersInit /\ [][PlayersNext]_vars

(***************************************************************************)
(* user_input (src/user_input.py): the integer prompt.  A response is the  *)
(* sequence of characters the user typed; "x" stands for any character     *)
(* that is neither a sign nor a digit.                                     *)
(***************************************************************************)
Characters == {"-", "0", "1", "x"}
Digits == {"0", "1"}
Responses == UNION {[1..n -> Characters] : n \in 0..MaxResponseLen}

\* the value of a sequence of decimal digits
RECURSIVE Decimal(_)
Decimal(digits) ==
    IF digits = <<>> THEN 0
    ELSE 10 * Decimal(SubSeq(digits, 1, Len(digits) - 1))
         + (IF digits[Len(digits)] = "1" THEN 1 ELSE 0)

\* int(response) does not raise ValueError: an optional sign, then digits
IsInteger(response) ==
    LET digits == IF response # <<>> /\ Head(response) = "-"
                  THEN Tail(response) ELSE response
    IN  digits # <<>> /\ \A i \in DOMAIN digits : digits[i] \in Digits

\* int(response)
int(response) ==
    IF Head(response) = "-" THEN 0 - Decimal(Tail(response)) ELSE Decimal(response)

\* GetInput(prompt, int) accepts the response: it is not empty and int() parses it
GetInput(response) == response # <<>> /\ IsInteger(response)

\* a range test that forgets the upper limit
InLimits_no_upper(v, constrained, low_lim, high_lim) == ~(constrained /\ v < low_lim)

\* GetInt: the response is not refused as "not an acceptable answer"
InLimits(v, constrained, low_lim, high_lim) ==
    ~(constrained /\ (v < low_lim \/ v > high_lim))

\* the prompt of run_simulations: get_int(..., True, 1, 10000)
TrialCountPrompt == [constrained |-> TRUE, low_lim |-> 1, high_lim |-> 10000]

\* the calls of the integer prompt: the trial count, a hull count
\* (True, 0, nmax), a part number (True, 1, number of parts), and the
\* unconstrained default GetInt(prompt)
Prompts ==
    {TrialCountPrompt}
    \cup {[constrained |-> TRUE, low_lim |-> 0, high_lim |-> get_hulls[hn].nmax] :
             hn \in DOMAIN get_hulls}
    \cup {[constrained |-> TRUE, low_lim |-> 1, high_lim |-> Cardinality(DOMAIN get_parts)],
          [constrained |-> FALSE, low_lim |-> 0, high_lim |-> 1]}

\* GetInt has been called and is about to ask
PromptInit ==
    \E args \in Prompts :
        /\ prompt = [constrained |-> args.constrained, low_lim |-> args.low_lim,
                     high_lim |-> args.high_lim, response |-> <<>>, value |-> 0]
        /\ players = setup_players
        /\ heap = <<>>
        /\ defender = NoPlayer
        /\ attacker = NoPlayer
        /\ firing_seq = <<>>
        /\ combat_round = 0
        /\ sim_results = <<0, 0, 0>>
        /\ nsims = 0
        /\ sim_num = 0
        /\ attack = NoAttack
        /\ salvo = NoFire
        /\ scoreboard = NoScoreboard
        /\ assembly = NoAssembly
        /\ pc = "GetInt"

\* GetInput refuses the response (empty, or not an integer): continue
GetInputRepeats ==
    /\ pc = "GetInt"
    /\ \E response \in Responses :
          /\ ~GetInput(response)
          /\ prompt' = [prompt EXCEPT !.response = response]
    /\ pc' = "refused"
    /\ UNCHANGED <<players, heap, defender, attacker, firing_seq, combat_round,
                   sim_results, nsims, sim_num, attack, salvo, scoreboard, assembly>>

\* GetInt refuses the integer (outside the limits): the loop goes on
GetIntRepeats ==
    /\ pc = "GetInt"
    /\ \E response \in Responses :
          /\ GetInput(response)
          /\ ~InLimits(int(response), prompt.constrained, prompt.low_lim, prompt.high_lim)
          /\ prompt' = [prompt EXCEPT !.response = response]
    /\ pc' = "refused"
    /\ UNCHANGED <<players, heap, defender, attacker, firing_seq, combat_round,
                   sim_results, nsims, sim_num, attack, salvo, scoreboard, assembly>>

\* the loop is back at input(prompt): the refused response is gone
AskAgain ==
    /\ pc = "refused"
    /\ prompt' = [prompt EXCEPT !.response = <<>>]
    /\ pc' = "GetInt"
    /\ UNCHANGED <<players, heap, defender, attacker, firing_seq, combat_round,
                   sim_results, nsims, sim_num, attack, salvo, scoreboard, assembly>>

\* GetInt returns the integer; run_simulations keeps it as nsims
GetIntReturns ==
    /\ pc = "GetInt"
    /\ \E response \in Responses :
          /\ GetInput(response)
          /\ InLimits(int(response), prompt.constrained, prompt.low_lim, prompt.high_lim)
          /\ prompt' = [prompt EXCEPT !.response = response, !.value = int(response)]
          /\ nsims' = IF [constrained |-> prompt.constrained, low_lim |-> prompt.low_lim,
                          high_lim |-> prompt.high_lim] = TrialCountPrompt
                      THEN int(response) ELSE nsims
    /\ pc' = "returned"
    /\ UNCHANGED <<players, heap, defender, attacker, firing_seq, combat_round,
                   sim_results, sim_num, attack, salvo, scoreboard, assembly>>

PromptNext ==
    \/ GetInputRepeats
    \/ GetIntRepeats
    \/ AskAgain
    \/ GetIntReturns

SpecPrompt == PromptInit /\ [][PromptNext]_vars

(***************************************************************************)
(* ECS.assemble_fleets step by step (src/ecs.py, src/ship.py, src/part.py):*)
(* one step per (player, hull) visit of its loops.  assembly.w is the      *)
(* visit in progress, assembly.prototypes the prototypes constructed so    *)
(* far and assembly.default whether each was built with the default parts. *)
(***************************************************************************)
\* the loadouts the user selects part by part for a custom prototype
CustomLoadouts ==
    {<<"Ion Turret", "Hull", "Electron Computer", "Nuclear Drive">>,
     <<"Heavy Cannon", "Hull", "Electron Computer", "Nuclear Drive">>,
     <<"Hull", "Hull", "Gauss Shield", "Nuclear Drive">>,
     <<"Plasma Cannon", "Plasma Cannon", "Plasma Cannon", "Nuclear Drive">>,
     <<"Ion Cannon", "<Empty Slot>", "<Empty Slot>", "Nuclear Drive">>}

\* part.select_part: the parts offered are the available ones, sorted by
\* name; the user's number k picks the k-th of them
select_part(is_available, k) ==
    SelectSeq(part_names, LAMBDA n : is_available[n] = 1)[k]

\* the numbers the user can type to get the part called name
Picks(is_available, name) ==
    {k \in 1..Len(SelectSeq(part_names, LAMBDA n : is_available[n] = 1)) :
        select_part(is_available, k) = name}

\* the slot loop of Ship.build_custom from slot i on: the selected part is
\* appended, and an ancient part is no longer available once equipped
RECURSIVE equip(_, _, _)
equip(loadout, i, acc) ==
    IF i > Len(loadout) \/ ~acc.offered THEN acc
    ELSE IF Picks(acc.is_available, loadout[i]) = {}
    THEN [acc EXCEPT !.offered = FALSE]
    ELSE LET selected_part ==
                 select_part(acc.is_available,
                             CHOOSE k \in Picks(acc.is_available, loadout[i]) : TRUE)
         IN  equip(loadout, i + 1,
                   [acc EXCEPT
                      !.parts = Append(@, selected_part),
                      !.is_available =
                          IF get_parts[selected_part].is_ancient = 1
                          THEN [@ EXCEPT ![selected_part] = 0] ELSE @])

\* the visit is skipped by `continue': an immobile hull, a player who is
\* not defending
Continue(w) ==
    /\ get_hulls[AssemblyOrder[w].hull].is_mobile = 0
    /\ players[AssemblyOrder[w].player].is_defending = 0

\* the end of a visit: the next hull, and a_player.sort_fleet() after the
\* player's last hull
EndVisit(h, ps, asm) ==
    /\ heap' = h
    /\ players' = IF asm.w % Len(hull_names) = 0
                  THEN [ps EXCEPT ![AssemblyOrder[asm.w].player].fleet = sort_fleet(h, @)]
                  ELSE ps
    /\ assembly' = [asm EXCEPT !.w = @ + 1]
    /\ pc' = IF asm.w = Len(AssemblyOrder) THEN "assembled" ELSE "assemble_fleets"

\* nships duplicates of the prototype join the player's fleet
Duplicates(proto, nships, asm) ==
    LET p     == AssemblyOrder[asm.w].player
        dupes == [i \in 1..nships |->
                    Ship(asm.ships + i, proto.hull, players[p], proto.parts)]
        addrs == [i \in 1..nships |-> Len(heap) + i]
    IN  EndVisit(heap \o dupes,
                 [players EXCEPT ![p].fleet = @ \o addrs],
                 [asm EXCEPT !.ships = @ + nships + 1])

AssemblyInit ==
    /\ players = setup_players
    /\ heap = <<>>
    /\ defender = NoPlayer
    /\ attacker = NoPlayer
    /\ firing_seq = <<>>
    /\ combat_round = 0
    /\ sim_results = <<0, 0, 0>>
    /\ nsims = 0
    /\ sim_num = 0
    /\ attack = NoAttack
    /\ salvo = NoFire
    /\ scoreboard = NoScoreboard
    /\ prompt = NoPrompt
    /\ assembly = [NoAssembly EXCEPT !.w = 1]
    /\ pc = "assemble_fleets"

\* no ship of this hull: the hull is skipped, or the user enters 0
SkipHull ==
    /\ pc = "assemble_fleets"
    /\ EndVisit(heap, players, assembly)
    /\ UNCHANGED <<defender, attacker, firing_seq, combat_round, sim_results,
                   nsims, sim_num, attack, salvo, scoreboard, prompt>>

\* nships > 0 and the user takes the default parts: Ship.build_default
\* raises RuntimeError if the prototype does not verify
BuildDefault ==
    /\ pc = "assemble_fleets"
    /\ ~Continue(assembly.w)
    /\ Len(assembly.prototypes) < MaxPrototypes
    /\ \E nships \in 1..get_hulls[AssemblyOrder[assembly.w].hull].nmax,
          intentional \in BOOLEAN :
       \E proto \in {Ship(assembly.ships, AssemblyOrder[assembly.w].hull,
                          players[AssemblyOrder[assembly.w].player],
                          get_hulls[AssemblyOrder[assembly.w].hull].default_parts)} :
       \E asm \in {[assembly EXCEPT !.prototypes = Append(@, proto),
                                     !.default = Append(@, TRUE)]} :
          IF verify(proto, intentional)
          THEN Duplicates(proto, nships, asm)
          ELSE /\ pc' = "RuntimeError"
               /\ assembly' = [asm EXCEPT !.ships = @ + 1]
               /\ UNCHANGED <<players, heap>>
    /\ UNCHANGED <<defender, attacker, firing_seq, combat_round, sim_results,
                   nsims, sim_num, attack, salvo, scoreboard, prompt>>

\* nships > 0 and the user equips the slots one by one: Ship.build_custom
\* starts over, every equipped part available again, if the prototype
\* does not verify
BuildCustom ==
    /\ pc = "assemble_fleets"
    /\ ~Continue(assembly.w)
    /\ Len(assembly.prototypes) < MaxPrototypes
    /\ \E nships \in 1..get_hulls[AssemblyOrder[assembly.w].hull].nmax,
          intentional \in BOOLEAN, loadout \in CustomLoadouts :
       \E eq \in {equip(loadout, 1, [parts |-> <<>>, offered |-> TRUE,
                                     is_available |-> assembly.is_available])} :
       \E proto \in {Ship(assembly.ships, AssemblyOrder[assembly.w].hull,
                          players[AssemblyOrder[assembly.w].player], eq.parts)} :
          /\ eq.offered
          /\ IF verify(proto, intentional)
             THEN Duplicates(proto, nships,
                             [assembly EXCEPT !.prototypes = Append(@, proto),
                                              !.default = Append(@, FALSE),
                                              !.is_available = eq.is_available])
             ELSE /\ assembly' =
                        [assembly EXCEPT !.is_available =
                            [n \in DOMAIN @ |->
                                IF n \in Range(eq.parts) THEN 1 ELSE eq.is_available[n]]]
                  /\ UNCHANGED <<players, heap, pc>>
    /\ UNCHANGED <<defender, attacker, firing_seq, combat_round, sim_results,
                   nsims, sim_num, attack, salvo, scoreboard, prompt>>

AssemblyNext ==
    \/ SkipHull
    \/ BuildDefault
    \/ BuildCustom

SpecAssembly == AssemblyInit /\ [][AssemblyNext]_vars


(***************************************************************************)
(* apply_attacks in isolation: the attack tuples of a weapon with any hit  *)
(* bonus and any damage, each with any to-hit roll, are resolved against   *)
(* the fleets of a trial as they stand at the start of the missile phase   *)
(* (fired = FALSE) or at the start of the first round (fired = TRUE: every *)
(* armed ship has fired its missiles and both fleets have been sorted      *)
(* again).                                                                 *)
(***************************************************************************)
AttackInit ==
    \E nships \in FleetSizes, fired \in BOOLEAN,
       hit_bonus \in 0..MaxHitBonus, damage \in 1..MaxDamage :
    \E ecs \in {assemble_fleets(nships)} :
    \E c1 \in {deepcopy([a \in DOMAIN ecs.heap |-> ecs.heap[a]], ecs.players[1])} :
    \E c2 \in {deepcopy(c1.heap, ecs.players[2])} :
    \E h \in {IF fired
               THEN [x \in DOMAIN c2.heap |->
                       IF x \in Range(c1.player.fleet) \cup Range(c2.player.fleet)
                       THEN roll_missile_attacks(c2.heap[x],
                                Owner(c2.heap[x], c1.player, c2.player).is_defending)
                       ELSE c2.heap[x]]
               ELSE c2.heap} :
    \E d \in {IF fired
               THEN [c1.player EXCEPT !.fleet = sort_fleet(h, c1.player.fleet)]
               ELSE c1.player} :
    \E a \in {IF fired
               THEN [c2.player EXCEPT !.fleet = sort_fleet(h, c2.player.fleet)]
               ELSE c2.player} :
        /\ players = ecs.players
        /\ heap = h
        /\ defender = d
        /\ attacker = a
        /\ firing_seq = FiringSeq(h, d, a)
        /\ combat_round = 1
        /\ sim_results = <<0, 0, 0>>
        /\ nsims = 1
        /\ sim_num = 1
        /\ attack = [tuple |-> <<0, hit_bonus, damage>>, opponent |-> 0]
        /\ salvo = NoFire
        /\ scoreboard = NoScoreboard
        /\ prompt = NoPrompt
        /\ assembly = NoAssembly
        /\ pc = "resolve"

\* apply_attacks: one iteration of `for attack in attacks'
ResolveAttack ==
    /\ pc = "resolve"
    /\ \E roll \in 1..DieSides, opponent \in {defender, attacker} :
          LET an_attack == <<roll, attack.tuple[2], attack.tuple[3]>>
              st == apply_attack([heap |-> heap, fleet |-> opponent.fleet,
                                  firing_seq |-> firing_seq], an_attack)
          IN  /\ attack' = [tuple |-> an_attack, opponent |-> opponent.id]
              /\ heap' = st.heap
              /\ firing_seq' = st.firing_seq
              /\ defender' = IF opponent.id = defender.id
                             THEN [defender EXCEPT !.fleet = st.fleet]
                             ELSE defender
              /\ attacker' = IF opponent.id = defender.id
                             THEN attacker
                             ELSE [attacker EXCEPT !.fleet = st.fleet]
    /\ UNCHANGED <<players, combat_round, sim_results, nsims, sim_num, salvo,
                   scoreboard, prompt, assembly, pc>>

AttackNext == ResolveAttack

SpecAttack == AttackInit /\ [][AttackNext]_vars

(***************************************************************************)
(* Vocabulary of the properties.                                           *)
(***************************************************************************)
\* the Ship objects of the template fleets, and those of the current trial
TemplateShips == Range(players[1].fleet) \cup Range(players[2].fleet)
TrialShips == Range(defender.fleet) \cup Range(attacker.fleet)

\* a combat is under way: simulate_combat is inside one of its roll_attacks
InCombat == pc \in {"missile", "round"}

\* both template fleets hold a ship
BothFleetsBuilt == Len(players[1].fleet) > 0 /\ Len(players[2].fleet) > 0

\* the fleet is in descending order of kill_priority
SortedByKillPriority(h, fleet) ==
    \A i, j \in DOMAIN fleet :
        i < j => h[fleet[i]].kill_priority.num * h[fleet[j]].kill_priority.den
                   >= h[fleet[j]].kill_priority.num * h[fleet[i]].kill_priority.den

\* the next step of roll_attacks resolves at least one attack tuple
AboutToResolve ==
    /\ InCombat
    /\ Firing
    /\ GroupShots(heap, FiringNow(heap, firing_seq), pc = "missile") # <<>>

\* the fleet the next group fires at
TargetFleet ==
    IF heap[FiringNow(heap, firing_seq)[1]].owner = defender.id
    THEN attacker.fleet ELSE defender.fleet

\* object a is a Ship of the current trial that has been destroyed
Destroyed(a) == a \in DOMAIN heap /\ a \notin TemplateShips /\ heap[a].armor < 1

\* the fleet an isolated attack tuple was resolved against, before and after
OpponentFleet == IF attack'.opponent = defender.id THEN defender.fleet ELSE attacker.fleet
OpponentFleetAfter == IF attack'.opponent = defender.id THEN defender'.fleet ELSE attacker'.fleet

\* exactly the ship at address t lost `damage' points of armor in this step,
\* and it left its fleet and the firing sequence if that took it below 1
OnlyStruck(t, damage) ==
    /\ heap'[t] = [heap[t] EXCEPT !.armor = @ - damage]
    /\ \A a \in DOMAIN heap : a # t => heap'[a] = heap[a]
    /\ \A a \in Range(OpponentFleet) \ {t} : a \in Range(OpponentFleetAfter)
    /\ t \in Range(OpponentFleetAfter) <=> heap'[t].armor >= 1
    /\ t \in Range(firing_seq') => heap'[t].armor >= 1

\* nothing was struck in this step
NothingStruck ==
    /\ heap' = heap
    /\ defender' = defender
    /\ attacker' = attacker
    /\ firing_seq' = firing_seq

(***************************************************************************)
(* C1: simulate_combat terminates for every pair of fleets and every       *)
(* sequence of die rolls.  Every step of a combat lowers Rank, a natural   *)
(* number: a firing group shortens the firing sequence, so a roll_attacks  *)
(* call ends after at most as many groups as there are ships, and every    *)
(* round raises the round counter, which never passes the cap of 1000.     *)
(* The combat leaves its loops for the classification exactly when a fleet *)
(* is empty or the counter has reached the cap.                            *)
(***************************************************************************)
QueueBound == Len(players[1].fleet) + Len(players[2].fleet)

Rank == (RoundCap - combat_round + (IF pc = "missile" THEN 1 ELSE 0)) * (QueueBound + 1)
        + Len(firing_seq)

C1_CombatTerminates ==
    [][InCombat =>
          /\ combat_round \in 1..RoundCap
          /\ combat_round' \in 1..RoundCap
          /\ Len(firing_seq) <= QueueBound
          /\ pc' \in {"missile", "round", "classify"}
          /\ pc' \in {"missile", "round"} => Rank' < Rank
          /\ Firing => (pc' = pc /\ Len(firing_seq') < Len(firing_seq))
          /\ (pc' = "classify") <=>
                /\ ~Firing
                /\ \/ Len(defender'.fleet) = 0
                   \/ Len(attacker'.fleet) = 0
                   \/ combat_round' = RoundCap]_vars

\* a combat in which both fleets survived to the round cap has been classified
C1_Witness ==
    /\ pc = "loop"
    /\ combat_round = RoundCap
    /\ sim_num > 0
    /\ Len(defender.fleet) > 0
    /\ Len(attacker.fleet) > 0

(***************************************************************************)
(* C2: when a combat that started with both fleets non-empty is            *)
(* classified, the defender's win is counted exactly when the attacker's   *)
(* fleet is empty, the attacker's win exactly when the defender's fleet is *)
(* empty, a stalemate exactly when both fleets are non-empty, and the two  *)
(* fleets are not both empty.                                              *)
(***************************************************************************)
C2_ClassificationMatchesFleets ==
    [][(pc = "classify" /\ pc' = "loop" /\ BothFleetsBuilt) =>
          /\ (sim_results'[1] = sim_results[1] + 1) <=> (Len(attacker.fleet) = 0)
          /\ (sim_results'[2] = sim_results[2] + 1) <=> (Len(defender.fleet) = 0)
          /\ (sim_results'[3] = sim_results[3] + 1)
                <=> (Len(defender.fleet) > 0 /\ Len(attacker.fleet) > 0)
          /\ ~(Len(defender.fleet) = 0 /\ Len(attacker.fleet) = 0)
          /\ sim_results'[1] + sim_results'[2] + sim_results'[3]
                = sim_results[1] + sim_results[2] + sim_results[3] + 1]_vars

\* the attacker has won the first trial of a combat between two real fleets
C2_Witness ==
    /\ pc = "loop"
    /\ BothFleetsBuilt
    /\ sim_results = <<0, 1, 0>>
    /\ Len(defender.fleet) = 0
    /\ Len(attacker.fleet) > 0

(***************************************************************************)
(* C3: during a combat no fleet grows, no ship joins a fleet, and a ship   *)
(* leaves its fleet only when its armor has dropped below 1.               *)
(***************************************************************************)
C3_FleetsOnlyShrinkByDestruction ==
    [][InCombat =>
          /\ Len(defender'.fleet) <= Len(defender.fleet)
          /\ Len(attacker'.fleet) <= Len(attacker.fleet)
          /\ Range(defender'.fleet) \subseteq Range(defender.fleet)
          /\ Range(attacker'.fleet) \subseteq Range(attacker.fleet)
          /\ \A a \in TrialShips :
                a \notin Range(defender'.fleet) \cup Range(attacker'.fleet)
                    => heap'[a].armor < 1]_vars

\* a damaged ship is still in its fleet while another one has been destroyed
C3_Witness ==
    /\ InCombat
    /\ \E a \in TrialShips : heap[a].armor = 1 /\ heap[a].hull = "Starbase"
    /\ \E a \in DOMAIN heap : Destroyed(a)

(***************************************************************************)
(* C4: every ship that is in a fleet of the trial has armor >= 1, at every *)
(* point between two groups firing and after the combat.                   *)
(***************************************************************************)
C4_ArmorFloor == \A a \in TrialShips : heap[a].armor >= 1

\* a ship was struck without being destroyed and another one was destroyed
C4_Witness ==
    /\ pc = "round"
    /\ \E a \in TrialShips :
          heap[a].armor < integrate(heap[a], Owner(heap[a], defender, attacker).is_defending).armor
    /\ \E a \in DOMAIN heap : Destroyed(a)

(***************************************************************************)
(* C5: a destroyed ship is in no firing queue: every ship that has yet to  *)
(* fire (and so every ship that rolls attacks) is in its owner's fleet,    *)
(* and no destroyed ship is in a fleet or in the queue.                    *)
(***************************************************************************)
C5_DestroyedNeverFires ==
    /\ \A i \in DOMAIN firing_seq :
          firing_seq[i] \in Range(Owner(heap[firing_seq[i]], defender, attacker).fleet)
    /\ \A a \in DOMAIN heap :
          Destroyed(a) => a \notin Range(firing_seq) \cup TrialShips

\* ships are about to fire in a round while a ship of the same trial is destroyed
C5_Witness ==
    /\ pc = "round"
    /\ Firing
    /\ \E a \in DOMAIN heap : Destroyed(a)

(***************************************************************************)
(* C6: an attack tuple whose to-hit roll is 1 changes no ship and no       *)
(* fleet, whatever its hit bonus and the shields of the targets.           *)
(***************************************************************************)
C6_RollOneMisses ==
    [][(pc = "resolve" /\ attack'.tuple[1] = 1) => NothingStruck]_vars

\* a roll of 1 with a hit bonus that would reach an unshielded ship
C6_Witness ==
    /\ pc = "resolve"
    /\ attack.tuple[1] = 1
    /\ attack.tuple[2] >= 5
    /\ attack.opponent = attacker.id
    /\ \E a \in Range(attacker.fleet) : heap[a].shield = 0

(***************************************************************************)
(* C7: an attack tuple whose to-hit roll is 6, resolved against a          *)
(* non-empty fleet, takes its damage off the armor of the ship at position *)
(* 0 of that fleet and changes no other ship.                              *)
(***************************************************************************)
C7_RollSixStrikesFirst ==
    [][(pc = "resolve" /\ attack'.tuple[1] = 6 /\ Len(OpponentFleet) > 0) =>
          OnlyStruck(OpponentFleet[1], attack'.tuple[3])]_vars

\* a roll of 6 without hit bonus has damaged the shielded Starbase, the
\* first ship of a defender fleet of two
C7_Witness ==
    /\ pc = "resolve"
    /\ attack.tuple[1] = 6
    /\ attack.tuple[2] = 0
    /\ attack.opponent = defender.id
    /\ Len(defender.fleet) = 2
    /\ heap[defender.fleet[1]].shield = 1
    /\ heap[defender.fleet[1]].armor = 1

(***************************************************************************)
(* C8: an attack tuple with roll in 2..5 strikes the first ship in fleet   *)
(* order with roll + hit_bonus - shield > 5 and no other ship; when no     *)
(* ship of the fleet qualifies, nothing changes.                           *)
(***************************************************************************)
C8_FirstHittableShipStruck ==
    [][(pc = "resolve" /\ attack'.tuple[1] \in 2..5) =>
          LET canhit == {i \in DOMAIN OpponentFleet :
                            attack'.tuple[1] + attack'.tuple[2]
                              - heap[OpponentFleet[i]].shield > 5}
          IN  IF canhit = {} THEN NothingStruck
              ELSE \E i \in canhit :
                      /\ \A j \in canhit : i <= j
                      /\ OnlyStruck(OpponentFleet[i], attack'.tuple[3])]_vars

\* a roll of 5 with hit bonus 1 passed over the shielded Starbase at
\* position 0 and destroyed the Interceptor behind it
C8_Witness ==
    /\ pc = "resolve"
    /\ attack.tuple[1] = 5
    /\ attack.tuple[2] = 1
    /\ attack.opponent = defender.id
    /\ Len(players[1].fleet) = 2
    /\ Len(defender.fleet) = 1
    /\ heap[defender.fleet[1]].shield = 1
    /\ heap[defender.fleet[1]].armor = 2

(***************************************************************************)
(* C9: at every attack resolution, in the missile phase and in every       *)
(* round, the targeted fleet is sorted by descending kill_priority.        *)
(***************************************************************************)
C9_TargetFleetSorted ==
    AboutToResolve => SortedByKillPriority(heap, TargetFleet)

(***************************************************************************)
(* C10: the template fleets never change (same ships, same statistics),    *)
(* and every trial starts on copies that are equal to the templates, ship  *)
(* by ship and in the same order.                                          *)
(***************************************************************************)
C10_TrialIsolation ==
    [][/\ players' = players
       /\ \A a \in TemplateShips : heap'[a] = heap[a]
       /\ (pc = "loop" /\ pc' = "missile") =>
             /\ Len(defender'.fleet) = Len(players[1].fleet)
             /\ Len(attacker'.fleet) = Len(players[2].fleet)
             /\ \A i \in DOMAIN players[1].fleet :
                   /\ defender'.fleet[i] \notin TemplateShips
                   /\ heap'[defender'.fleet[i]] = heap[players[1].fleet[i]]
             /\ \A i \in DOMAIN players[2].fleet :
                   /\ attacker'.fleet[i] \notin TemplateShips
                   /\ heap'[attacker'.fleet[i]] = heap[players[2].fleet[i]]]_vars

\* the second trial starts after a first trial in which a ship fired its
\* missiles and a ship was destroyed
C10_Witness ==
    /\ pc = "missile"
    /\ sim_num = 2
    /\ sim_results # <<0, 0, 1>>
    /\ BothFleetsBuilt
    /\ \A a \in TrialShips : heap[a].missiles_fired = 0

(***************************************************************************)
(* Vocabulary of a recorded combat.                                        *)
(***************************************************************************)
\* the non-missile weapon parts of a ship, their shots and their damage
ConventionalParts(s) ==
    {i \in DOMAIN s.parts :
        get_parts[s.parts[i]].is_weapon = 1 /\ get_parts[s.parts[i]].is_missile = 0}
ConventionalShots(s) ==
    SumSeq([i \in DOMAIN s.parts |->
              IF i \in ConventionalParts(s) THEN get_parts[s.parts[i]].nshots ELSE 0])
ConventionalDamage(s) ==
    SumSeq([i \in DOMAIN s.parts |->
              IF i \in ConventionalParts(s)
              THEN get_parts[s.parts[i]].damage * get_parts[s.parts[i]].nshots ELSE 0])

\* the missile-launcher parts of a ship and their shots
MissileParts(s) ==
    {i \in DOMAIN s.parts :
        get_parts[s.parts[i]].is_weapon = 1 /\ get_parts[s.parts[i]].is_missile = 1}
MissileShots(s) ==
    SumSeq([i \in DOMAIN s.parts |->
              IF i \in MissileParts(s) THEN get_parts[s.parts[i]].nshots ELSE 0])

\* the Ship objects made for the trial, destroyed ones included
TrialObjects == DOMAIN heap \ TemplateShips

\* the ships still in a fleet of the trial
Living == Range(defender.fleet) \cup Range(attacker.fleet)

\* the last firing group was one of a conventional round / of the missile phase
RoundFired == salvo # NoFire /\ ~salvo.missiles
MissilesFired == salvo # NoFire /\ salvo.missiles

(***************************************************************************)
(* C11: missile exhaustion.  A ship that fires in the missile phase has    *)
(* missiles_fired set by that step, the flag is never cleared during the   *)
(* combat, and while it is set has_weapon, net_damage and kill_priority    *)
(* count the non-missile weapon parts only; a group of ships whose only    *)
(* weapons are missile launchers rolls no attack in a round.               *)
(***************************************************************************)
C11_MissileExhaustion ==
    /\ \A a \in TrialObjects :
          heap[a].missiles_fired = 1 =>
             /\ heap[a].net_damage = ConventionalDamage(heap[a])
             /\ heap[a].has_weapon = (IF ConventionalParts(heap[a]) = {} THEN 0 ELSE 1)
             /\ heap[a].kill_priority.num
                   = ConventionalDamage(heap[a]) * (1 + heap[a].hit_bonus)
    /\ MissilesFired =>
          \A i \in DOMAIN salvo.ships :
             salvo.attacks # <<>> => heap[salvo.ships[i]].missiles_fired = 1
    /\ pc = "round" =>
          \A a \in Living :
             MissileParts(heap[a]) # {} => heap[a].missiles_fired = 1
    /\ (RoundFired /\ \A i \in DOMAIN salvo.ships :
                          ConventionalParts(heap[salvo.ships[i]]) = {})
          => salvo.attacks = <<>>

\* in a later round a ship that has only missile launchers, and has fired
\* them, had its turn and rolled nothing
C11_Witness ==
    /\ pc = "round"
    /\ combat_round > 1
    /\ ~salvo.missiles
    /\ salvo.attacks = <<>>
    /\ \E i \in DOMAIN salvo.ships :
          /\ MissileParts(heap[salvo.ships[i]]) # {}
          /\ ConventionalParts(heap[salvo.ships[i]]) = {}
          /\ heap[salvo.ships[i]].missiles_fired = 1
          /\ heap[salvo.ships[i]].has_weapon = 0

\* the damage values of a set of parts of a ship
Damages(s, parts) == {get_parts[s.parts[i]].damage : i \in parts}

\* no element occurs twice in a sequence
NoRepeat(seq) == \A i, j \in DOMAIN seq : seq[i] = seq[j] => i = j

(***************************************************************************)
(* C12: missile tuples are rolled only in the missile phase, which is      *)
(* round 1 before any conventional round, from missile launchers only and  *)
(* by no ship twice; the tuples of a group in a conventional round are one *)
(* per shot of each non-missile weapon part of its ships and none from a   *)
(* missile launcher.                                                       *)
(***************************************************************************)
C12_AttackCategories ==
    /\ MissilesFired =>
          /\ salvo.round = 1
          /\ NoRepeat(salvo.had)
          /\ Len(salvo.attacks)
                = SumSeq([i \in DOMAIN salvo.ships |->
                            IF heap[salvo.ships[i]].missiles_fired = 1
                            THEN MissileShots(heap[salvo.ships[i]]) ELSE 0])
          /\ \A k \in DOMAIN salvo.attacks :
                \E i \in DOMAIN salvo.ships :
                   salvo.attacks[k][3]
                      \in Damages(heap[salvo.ships[i]], MissileParts(heap[salvo.ships[i]]))
    /\ pc = "missile" =>
          \A a \in TrialObjects :
             heap[a].missiles_fired = 1 => MissilesFired /\ a \in Range(salvo.had)
    /\ RoundFired =>
          /\ Len(salvo.attacks)
                = SumSeq([i \in DOMAIN salvo.ships |->
                            ConventionalShots(heap[salvo.ships[i]])])
          /\ \A k \in DOMAIN salvo.attacks :
                \E i \in DOMAIN salvo.ships :
                   salvo.attacks[k][3]
                      \in Damages(heap[salvo.ships[i]],
                                  ConventionalParts(heap[salvo.ships[i]]))

\* a ship with a missile launcher and a cannon has fired both: the launcher
\* in the missile phase, and now the cannon alone in a round
C12_Witness ==
    /\ RoundFired
    /\ salvo.attacks # <<>>
    /\ \E i \in DOMAIN salvo.ships :
          /\ MissileParts(heap[salvo.ships[i]]) # {}
          /\ ConventionalParts(heap[salvo.ships[i]]) # {}
          /\ heap[salvo.ships[i]].missiles_fired = 1

\* all ships of a group belong to one player
SingleOwner(ships) ==
    \A i \in DOMAIN ships : heap[ships[i]].owner = heap[ships[1]].owner

\* initiative without the defender's tie-break: hull and part bonuses only
BaseInitiative(a) ==
    heap[a].initiative - (IF heap[a].owner = defender.id THEN defender.is_defending ELSE 0)

(***************************************************************************)
(* C13: with integer initiative bonuses and exactly one defending player,  *)
(* the ships that fire together all belong to one player, and their attack *)
(* tuples are applied to the other player's fleet only: no ship of the     *)
(* firing player is lost or damaged by them.                               *)
(***************************************************************************)
C13_SingleOwnerGroups ==
    /\ (pc \in {"missile", "round"} /\ Firing)
          => SingleOwner(FiringNow(heap, firing_seq))
    /\ salvo # NoFire =>
          /\ SingleOwner(salvo.ships)
          /\ salvo.attacks # <<>> =>
                /\ salvo.target \in {defender.id, attacker.id}
                /\ salvo.target # heap[salvo.ships[1]].owner
          /\ salvo.struck \subseteq {salvo.target}

\* a defending ship tied with an attacking ship on hull and part initiative
\* fired alone, and its tuples struck the attacker's fleet
C13_Witness ==
    /\ salvo.attacks # <<>>
    /\ heap[salvo.ships[1]].owner = defender.id
    /\ salvo.struck = {attacker.id}
    /\ \E a \in TrialObjects :
          /\ heap[a].owner = attacker.id
          /\ BaseInitiative(a) = BaseInitiative(salvo.ships[1])

(***************************************************************************)
(* C14: within the missile phase and within each round the ships take      *)
(* their turns in order of non-increasing initiative, no ship has two      *)
(* turns in a phase, and when an attacking ship takes its turn every       *)
(* defending ship still in the fleet whose hull and part initiative is the *)
(* same has already had its turn in that phase.                            *)
(***************************************************************************)
C14_FiringOrder ==
    /\ \A i, j \in DOMAIN salvo.had :
          i < j => heap[salvo.had[i]].initiative >= heap[salvo.had[j]].initiative
    /\ NoRepeat(salvo.had)
    /\ \A j \in DOMAIN salvo.had :
          heap[salvo.had[j]].owner = attacker.id =>
             \A a \in Range(defender.fleet) :
                BaseInitiative(a) = BaseInitiative(salvo.had[j])
                   => \E i \in 1..(j - 1) : salvo.had[i] = a

\* in a round, a defending ship and then an attacking ship of the same hull
\* and part initiative have taken their turns
C14_Witness ==
    /\ RoundFired
    /\ \E i, j \in DOMAIN salvo.had :
          /\ i < j
          /\ heap[salvo.had[i]].owner = defender.id
          /\ heap[salvo.had[j]].owner = attacker.id
          /\ BaseInitiative(salvo.had[i]) = BaseInitiative(salvo.had[j])
          /\ salvo.had[i] \in Range(defender.fleet)

\* no ship can hit a ship of the other player with a roll of 2..5
CannotHit ==
    \A a, b \in TrialObjects :
        heap[a].owner # heap[b].owner =>
           \A roll \in 2..(DieSides - 1) :
              ~(roll + heap[a].hit_bonus - heap[b].shield > 5)

\* every ship made for the trial is in its fleet with the armor it was built with
Intact ==
    \A a \in TrialObjects :
        /\ a \in Living
        /\ heap[a].armor = 1 + SumSeq(PartValues(heap[a].parts, "armor"))

\* the combat has been classified
Classified == pc \in {"loop", "done"}

(***************************************************************************)
(* C15: a combat is counted as a stalemate only if the round counter has   *)
(* reached 1000 and both fleets still have ships; when no ship can hit a   *)
(* ship of the other fleet with a roll of 2..5 and no die has shown a 6,   *)
(* both non-empty fleets are intact, and the combat, once classified, has  *)
(* reached round 1000 and is counted as a stalemate and not as a victory.  *)
(***************************************************************************)
C15_Stalemate ==
    /\ sim_results[Len(sim_results)] > 0 =>
          /\ combat_round = RoundCap
          /\ Len(defender.fleet) > 0
          /\ Len(attacker.fleet) > 0
    /\ (/\ CannotHit
        /\ ~salvo.six
        /\ \E a, b \in TrialObjects : heap[a].owner # heap[b].owner) =>
          /\ Intact
          /\ Classified => combat_round = RoundCap /\ sim_results = <<0, 0, 1>>

\* two shielded Interceptors have fired at each other for a thousand rounds
\* without a 6 and the combat is counted as a stalemate
C15_Witness ==
    /\ Classified
    /\ CannotHit
    /\ ~salvo.six
    /\ salvo.attacks # <<>>
    /\ salvo.round = RoundCap - 1
    /\ Intact
    /\ sim_results = <<0, 0, 1>>

\* a ship as built: armor, shield, hit bonus, one conventional weapon of
\* one shot and the given damage, no missiles, initiative in half-points
Built(a, armor, damage, initiative) ==
    /\ 1 + SumSeq(PartValues(heap[a].parts, "armor")) = armor
    /\ heap[a].shield = 0
    /\ heap[a].hit_bonus = 0
    /\ Cardinality(ConventionalParts(heap[a])) = 1
    /\ ConventionalShots(heap[a]) = 1
    /\ ConventionalDamage(heap[a]) = damage
    /\ MissileParts(heap[a]) = {}
    /\ heap[a].initiative = initiative

\* the duel of defender ship d (armor 5, damage 6, initiative 1.5) and
\* attacker ship a (armor 3, damage 3, initiative 1.0)
Duel(d, a) ==
    /\ TrialObjects = {d, a}
    /\ heap[d].owner = defender.id
    /\ heap[a].owner = attacker.id
    /\ Built(d, 5, 6, 3)
    /\ Built(a, 3, 3, 2)

\* the defender's ship has rolled a 6 in round 1
DefenderRolledSix(d) ==
    /\ RoundFired
    /\ salvo.round = 1
    /\ salvo.ships = <<d>>
    /\ Len(salvo.attacks) = 1
    /\ salvo.attacks[1][1] = DieSides

(***************************************************************************)
(* C16: in the duel of a defender ship (armor 5, damage 6, initiative 1.5) *)
(* and an attacker ship (armor 3, damage 3, initiative 1.0), the defender  *)
(* has the first turn of round 1; when its die shows 6 the attacker's ship *)
(* is destroyed without having had a turn in the round, no later round is  *)
(* fought, and the combat is counted as one defender win, no attacker win  *)
(* and no stalemate.                                                       *)
(***************************************************************************)
C16_Duel ==
    \A d, a \in TrialObjects :
        Duel(d, a) =>
           /\ (RoundFired /\ salvo.round = 1) => salvo.had[1] = d
           /\ DefenderRolledSix(d) =>
                 /\ salvo.had = <<d>>
                 /\ salvo.struck = {attacker.id}
                 /\ attacker.fleet = <<>>
                 /\ a \notin Range(firing_seq)
                 /\ defender.fleet = <<d>>
                 /\ heap[d].armor = 5
                 /\ combat_round <= 2
                 /\ Classified => sim_results = <<1, 0, 0>>

\* the duel has been fought and counted
C16_Witness ==
    \E d, a \in TrialObjects :
        /\ Duel(d, a)
        /\ DefenderRolledSix(d)
        /\ Classified
        /\ sim_results = <<1, 0, 0>>

\* the dice of the last firing group
Dice(sv) == [i \in DOMAIN sv.attacks |-> sv.attacks[i][1]]

\* the counter simulate_combat raises for the fleets d and a
Classification(d, a) ==
    IF Len(d.fleet) < 1 THEN 2 ELSE IF Len(a.fleet) < 1 THEN 1 ELSE 3

ShipsOfHull(fleet, key) == Cardinality({a \in Range(fleet) : heap[a].hull = key})

\* lists' is lists with, for every hull name of the template fleet, the
\* number of ships of that hull in the winner's fleet appended
Appended(lists, template, winner) ==
    /\ DOMAIN lists' = HullNames(heap, template.fleet)
    /\ \A key \in DOMAIN lists' :
          lists'[key] = Append(lists[key], ShipsOfHull(winner.fleet, key))

(***************************************************************************)
(* C18: record_victory(winner) adds exactly 1 to the win counter of the    *)
(* winner's side and appends, to the list of every hull name of that       *)
(* side's template fleet, the number of ships of that hull in the winner's *)
(* fleet (0 when none is left), and leaves the other side's counter and    *)
(* lists and the stalemate counter as they were; record_stalemate adds 1   *)
(* to the stalemate counter and changes nothing else.                      *)
(***************************************************************************)
C18_ScoreboardRecording ==
    [][/\ pc' = "record_victory(defender)" =>
            /\ scoreboard'.def_wins = scoreboard.def_wins + 1
            /\ Appended(scoreboard.def_ships_remaining, players[1], defender')
            /\ scoreboard'.atk_wins = scoreboard.atk_wins
            /\ scoreboard'.atk_ships_remaining = scoreboard.atk_ships_remaining
            /\ scoreboard'.stalemates = scoreboard.stalemates
       /\ pc' = "record_victory(attacker)" =>
            /\ scoreboard'.atk_wins = scoreboard.atk_wins + 1
            /\ Appended(scoreboard.atk_ships_remaining, players[2], attacker')
            /\ scoreboard'.def_wins = scoreboard.def_wins
            /\ scoreboard'.def_ships_remaining = scoreboard.def_ships_remaining
            /\ scoreboard'.stalemates = scoreboard.stalemates
       /\ pc' = "record_stalemate" =>
            /\ scoreboard'.stalemates = scoreboard.stalemates + 1
            /\ scoreboard'.def_wins = scoreboard.def_wins
            /\ scoreboard'.atk_wins = scoreboard.atk_wins
            /\ scoreboard'.def_ships_remaining = scoreboard.def_ships_remaining
            /\ scoreboard'.atk_ships_remaining = scoreboard.atk_ships_remaining]_vars

\* an attacker victory, then a defender victory in which one hull of the
\* defender's fleet has no survivor and another has one, have been recorded
C18_Witness ==
    /\ pc = "record_victory(defender)"
    /\ scoreboard.def_wins = 1
    /\ scoreboard.atk_wins = 1
    /\ \E k1, k2 \in DOMAIN scoreboard.def_ships_remaining :
          /\ scoreboard.def_ships_remaining[k1] = <<0>>
          /\ scoreboard.def_ships_remaining[k2] = <<1>>
          /\ ShipsOfHull(defender.fleet, k1) = 0
          /\ ShipsOfHull(defender.fleet, k2) = 1

(***************************************************************************)
(* C19: run_simulations runs exactly nsims trials: the trial number goes   *)
(* up by one per trial and never beyond nsims, a change of the result      *)
(* counters is an increase of exactly one of them by exactly 1, the        *)
(* counters always sum to the number of trials classified so far, and when *)
(* the run is over nsims trials have run and the counters sum to nsims.    *)
(***************************************************************************)
C19_TrialsCounted ==
    [][/\ sim_num' # sim_num =>
            sim_num' = sim_num + 1 /\ sim_num' <= nsims /\ pc' = "missile"
       /\ sim_results' # sim_results =>
            /\ pc = "classify"
            /\ \E k \in DOMAIN sim_results :
                  sim_results' = [sim_results EXCEPT ![k] = @ + 1]
       /\ sim_results'[1] + sim_results'[2] + sim_results'[3]
             = (IF pc' \in {"setup", "loop", "done"} THEN sim_num' ELSE sim_num' - 1)
       /\ pc' = "done" =>
            /\ sim_num' = nsims'
            /\ sim_results'[1] + sim_results'[2] + sim_results'[3] = nsims']_vars

\* a run of more than one trial is over, with more than one counter raised
C19_Witness ==
    /\ pc = "done"
    /\ nsims > 1
    /\ sim_num = nsims
    /\ sim_results[1] + sim_results[2] + sim_results[3] = nsims
    /\ Cardinality({k \in DOMAIN sim_results : sim_results[k] > 0}) > 1

(***************************************************************************)
(* C20: with a number of players other than two run_simulations raises     *)
(* and nothing else ever happens: no trial count is read, no player or     *)
(* ship is copied, no combat is started and every result counter is as it  *)
(* was.                                                                    *)
(***************************************************************************)
C20_RejectedBeforeAnything ==
    Len(players) # 2 =>
       /\ pc \in {"setup", "error"}
       /\ nsims = 0
       /\ sim_num = 0
       /\ defender = NoPlayer
       /\ attacker = NoPlayer
       /\ \A a \in DOMAIN heap : a <= CopyOffset
       /\ firing_seq = <<>>
       /\ combat_round = 0
       /\ sim_results = <<0, 0, 0>>

\* run_simulations has raised for a single player who has a fleet
C20_Witness ==
    /\ pc = "error"
    /\ Len(players) = 1
    /\ Len(players[1].fleet) > 0

(***************************************************************************)
(* C21: the constrained integer prompt returns only an integer v with      *)
(* low_lim <= v <= high_lim, the one the last response denotes; after an   *)
(* empty, non-integer or out-of-range response it has not returned and     *)
(* asks again; the trial count of run_simulations is therefore within      *)
(* 1..10000.                                                               *)
(***************************************************************************)
C21_ConstrainedPrompt ==
    /\ pc = "returned" =>
          /\ prompt.response # <<>>
          /\ IsInteger(prompt.response)
          /\ prompt.value = int(prompt.response)
          /\ prompt.constrained =>
                prompt.low_lim <= prompt.value /\ prompt.value <= prompt.high_lim
    /\ (\/ prompt.response = <<>>
        \/ ~IsInteger(prompt.response)
        \/ /\ prompt.constrained
           /\ \/ int(prompt.response) < prompt.low_lim
              \/ int(prompt.response) > prompt.high_lim)
          => pc \in {"GetInt", "refused"} /\ prompt.value = 0 /\ nsims = 0
    /\ pc = "refused" => ENABLED AskAgain
    /\ nsims # 0 => 1 <= nsims /\ nsims <= 10000

\* the trial-count prompt was answered with an integer above 10000 and
\* asks again
C21_Witness ==
    /\ pc = "refused"
    /\ prompt.constrained
    /\ prompt.high_lim = 10000
    /\ IsInteger(prompt.response)
    /\ int(prompt.response) > prompt.high_lim
    /\ nsims = 0

(***************************************************************************)
(* C22: build_default raises the fatal configuration error if and only if  *)
(* the hull's default loadout fails legality validation; a default loadout *)
(* that is legal is always accepted without an error.                      *)
(***************************************************************************)
C22_DefaultLoadoutError ==
    /\ pc = "RuntimeError" =>
          /\ assembly.default[Len(assembly.default)]
          /\ ~verify_legality(assembly.prototypes[Len(assembly.prototypes)])
    /\ \A i \in DOMAIN assembly.prototypes :
          (assembly.default[i] /\ ~verify_legality(assembly.prototypes[i]))
             => pc = "RuntimeError" /\ i = Len(assembly.prototypes)

(***************************************************************************)
(* C23: every combat started by run_simulations begins with both fleets    *)
(* non-empty: fleet assembly never hands the runner a player whose fleet   *)
(* has no ship.                                                            *)
(***************************************************************************)
\* (a trial's fleets begin as the deep copies of the template fleets)
C23_FleetsNonEmpty == sim_num > 0 => BothFleetsBuilt

\* the sum of one attribute over the parts a ship is equipped with
PartSum(a, attr) == SumSeq(PartValues(heap[a].parts, attr))

\* the ships of the last missile salvo that fired: integrate has just run on them
Reintegrated == {a \in Range(salvo.ships) : salvo.missiles /\ heap[a].missiles_fired = 1}

(***************************************************************************)
(* C24: Ship.integrate is a function of the hull, the parts, missiles_fired*)
(* and the owner's is_defending only.  Every ship of a trial, however      *)
(* often it was integrated, has net_power = hull.bonus_power + sum of      *)
(* power, shield = sum of shield, hit_bonus = sum of hit_bonus,            *)
(* initiative = hull.bonus_initiative + sum of initiative + 0.5 exactly    *)
(* when its owner defends, and has_drive iff a part is a drive; a ship     *)
(* that integrate has just run on has armor = 1 + sum of armor.            *)
(***************************************************************************)
C24_Integrate ==
    /\ \A a \in Living :
          /\ heap[a].net_power = get_hulls[heap[a].hull].bonus_power + PartSum(a, "power")
          /\ heap[a].shield = PartSum(a, "shield")
          /\ heap[a].hit_bonus = PartSum(a, "hit_bonus")
          /\ heap[a].initiative =
                2 * get_hulls[heap[a].hull].bonus_initiative
                + 2 * PartSum(a, "initiative")
                + (IF Owner(heap[a], defender, attacker).is_defending = 1 THEN 1 ELSE 0)
          /\ heap[a].has_drive = 1 <=>
                \E i \in DOMAIN heap[a].parts : get_parts[heap[a].parts[i]].is_drive = 1
    /\ \A a \in Reintegrated : heap[a].armor = 1 + PartSum(a, "armor")

\* a defending ship has fired its missiles and was integrated a second time
C24_Witness ==
    \E a \in Reintegrated :
        /\ a \in Living
        /\ heap[a].owner = defender.id
        /\ defender.is_defending = 1
        /\ heap[a].initiative % 2 = 1

\* two ships that differ in net_damage only: same hull, shield, hit bonus
\* (not negative) and armor, the first with the larger net_damage
MoreDamaging(a, b) ==
    /\ heap[a].hull = heap[b].hull
    /\ heap[a].shield = heap[b].shield
    /\ heap[a].hit_bonus = heap[b].hit_bonus
    /\ heap[a].hit_bonus >= 0
    /\ heap[a].armor = heap[b].armor
    /\ heap[a].net_damage > heap[b].net_damage

(***************************************************************************)
(* C25: of two assembled ships with the same hull, shield, hit bonus       *)
(* (>= 0) and armor, the one with the larger net_damage has the strictly   *)
(* larger kill_priority (compared by cross-multiplication).                *)
(***************************************************************************)
C25_KillPriorityMonotonic ==
    /\ \A a, b \in DOMAIN heap :
          MoreDamaging(a, b) =>
              heap[a].kill_priority.num * heap[b].kill_priority.den
                  > heap[b].kill_priority.num * heap[a].kill_priority.den
    /\ \A hit_bonus \in 0..MaxHitBonus, armor \in 1..(MaxDamage + 1) :
       \A x, y \in 0..(2 * MaxDamage) :
          x > y =>
              calc_kill_priority(x, hit_bonus, armor).num
                      * calc_kill_priority(y, hit_bonus, armor).den
                  > calc_kill_priority(y, hit_bonus, armor).num
                      * calc_kill_priority(x, hit_bonus, armor).den

\* the two fleets hold ships that differ in net_damage only
C25_Witness ==
    /\ pc = "assembled"
    /\ \E a \in Range(players[1].fleet), b \in Range(players[2].fleet) : MoreDamaging(a, b)

\* the ships of the two fleets that are equipped with the part called name
Equipped(name) ==
    {a \in Range(players[1].fleet) \cup Range(players[2].fleet) :
        name \in Range(heap[a].parts)}

(***************************************************************************)
(* C26: ancient parts are unique.  While and after the fleets are          *)
(* assembled, each ancient part is equipped on at most one ship across     *)
(* both players' fleets, and an ancient part that is equipped is           *)
(* unavailable for every later slot, ship and player.                      *)
(***************************************************************************)
C26_AncientPartsUnique ==
    \A name \in DOMAIN get_parts :
        get_parts[name].is_ancient = 1 =>
            /\ Cardinality(Equipped(name)) <= 1
            /\ Equipped(name) # {} => assembly.is_available[name] = 0

(***************************************************************************)
(* C27: damage persists.  Within a combat the armor of a ship never        *)
(* increases from one step to the next (so that a surviving ship's armor   *)
(* is its armor at the start of the combat minus the damage that struck    *)
(* it), also for a ship damaged in the missile phase before its own turn   *)
(* in that phase.                                                          *)
(***************************************************************************)
C27_DamagePersists ==
    [][InCombat =>
         \A a \in DOMAIN heap \cap DOMAIN heap' : heap'[a].armor <= heap[a].armor]_vars

\* the conventional rounds simulate_combat has resolved: combat_round starts
\* at 1 and is incremented after every roll_attacks of the round loop
RoundsResolved == combat_round - 1

(***************************************************************************)
(* C28: a combat that is counted as a stalemate has resolved exactly 1000  *)
(* full conventional rounds after the missile phase, not fewer.            *)
(***************************************************************************)
C28_StalemateRounds ==
    (Classified /\ sim_results[Len(sim_results)] > 0) => RoundsResolved = RoundCap

\* a fleet of the trial has no ship left
FleetEmpty == Len(defender.fleet) = 0 \/ Len(attacker.fleet) = 0

(***************************************************************************)
(* C29: once a fleet of a combat is empty nothing further happens in that  *)
(* combat: no further group fires (no attack tuple is rolled or applied),  *)
(* no further round is started, and the ships of the winner keep exactly   *)
(* the state they had when the last opposing ship was destroyed.           *)
(***************************************************************************)
C29_CombatStops ==
    [][FleetEmpty =>
         /\ heap' = heap
         /\ salvo' = salvo
         /\ Range(defender'.fleet) = Range(defender.fleet)
         /\ Range(attacker'.fleet) = Range(attacker.fleet)
         /\ pc' \notin {"missile", "round"}
         /\ combat_round' \in {combat_round, combat_round + 1}]_vars

\* the last salvo, all sixes, had more tuples than the other player had
\* ships: its last tuples were dropped, the combat is classified, and a
\* ship of the winner had not fired yet
C29_Witness ==
    /\ Classified
    /\ FleetEmpty
    /\ Living # {}
    /\ \A k \in DOMAIN salvo.attacks : salvo.attacks[k][1] = DieSides
    /\ Len(salvo.attacks)
          > Cardinality({a \in TrialObjects : heap[a].owner = salvo.target})
    /\ \E a \in Living : a \notin Range(salvo.had)

\* every per-hull list of a side has one entry per win of that side
ListsMatchWins(sb) ==
    /\ \A key \in DOMAIN sb.def_ships_remaining :
          Len(sb.def_ships_remaining[key]) = sb.def_wins
    /\ \A key \in DOMAIN sb.atk_ships_remaining :
          Len(sb.atk_ships_remaining[key]) = sb.atk_wins

(***************************************************************************)
(* C30: after any sequence of record_victory and record_stalemate calls    *)
(* every per-hull list of the defender has length def_wins and every       *)
(* per-hull list of the attacker has length atk_wins (an average over a    *)
(* list of a side that has won never divides by zero), and                 *)
(* def_wins + atk_wins + stalemates is the number of calls made: it is 0   *)
(* for a new scoreboard and every call adds exactly 1.                     *)
(***************************************************************************)
C30_ScoreboardConsistent ==
    /\ Recorded(scoreboard) = 0
    /\ [](/\ ListsMatchWins(scoreboard)
          /\ (scoreboard.def_wins > 0 =>
                 \A key \in DOMAIN scoreboard.def_ships_remaining :
                    Len(scoreboard.def_ships_remaining[key]) > 0)
          /\ (scoreboard.atk_wins > 0 =>
                 \A key \in DOMAIN scoreboard.atk_ships_remaining :
                    Len(scoreboard.atk_ships_remaining[key]) > 0))
    /\ [][pc' \in {"record_victory(defender)", "record_victory(attacker)",
                   "record_stalemate"}
            => Recorded(scoreboard') = Recorded(scoreboard) + 1]_vars

\* both sides have won and a stalemate was recorded, and both sides have
\* per-hull lists
C30_Witness ==
    /\ scoreboard.def_wins > 0
    /\ scoreboard.atk_wins > 0
    /\ scoreboard.stalemates > 0
    /\ DOMAIN scoreboard.def_ships_remaining # {}
    /\ DOMAIN scoreboard.atk_ships_remaining # {}
    /\ pc = "record_stalemate"

====
